---------------------------- MODULE Spec2Model ----------------------------
(***************************************************************************)
(* A model of the entity/component/system runtime of src/Assets/ecs.h:     *)
(* EntityManager (entity registry, component store, system registry and    *)
(* the deferred destruction pipeline) and System's subscriber set.         *)
(*                                                                         *)
(* One action stands for one public call on the EntityManager.  The        *)
(* history variables `last`, `hooks` and `inUse` record what a caller can  *)
(* observe of the calls made so far; they are never read by the modelled   *)
(* code.                                                                   *)
(***************************************************************************)
EXTENDS Integers, Sequences, FiniteSets, TLC

(***************************************************************************)
(* Bounds of the model.                                                    *)
(***************************************************************************)
\* m_nextEntityID is only advanced while it is below this bound.
MaxEntityID == 3
\* ProcessDestructions only runs while the id pool stays within this length.
MaxPool == 3
\* The same two bounds for Spec, which explores the whole interface
\* (components and systems too) and does so on a smaller registry.
MaxStoreEntityID == 2
MaxStorePool == 2
\* Number of distinct component types that are used (identifiers 0..n-1).
NumComponentTypes == 2
\* Number of distinct hero ids the client passes to CreateHero.
NumHeroIDs == 2
\* Number of distinct keys that send events to the InputManager.
NumKeys == 3
\* The bound on m_nextEntityID for the specifications that follow the
\* handles of the client or the objects of the systems (SpecHandles,
\* SpecSystems).
MaxHandleEntityID == 1
\* Number of component types and of system types of the program whose type
\* identifiers are requested (SpecTypeIDs).
MaxComponentTypes == 4
MaxSystemTypes == 3

(***************************************************************************)
(* Program constants.                                                      *)
(***************************************************************************)
\* ecs.h:29 declares MAX_ENTITIES = 10000.  No statement of the program
\* reads the constant, so no behaviour depends on its value; it is scaled
\* down here so that m_nextEntityID can be driven up to it.
MAX_ENTITIES == 2
\* ecs.h:28 declares MAX_COMPONENTS = 64, the width of ComponentMask.  It is
\* scaled down here so that a program can have more component types than
\* that; the component identifiers of the other specifications stay below.
MAX_COMPONENTS == 3

\* The component types and the system types of the program (template
\* arguments of GetComponentTypeID / GetSystemTypeID).
ComponentTypes == 1 .. MaxComponentTypes
SystemTypes == 1 .. MaxSystemTypes

EntityIDs == 0 .. (MaxEntityID - 1)
ComponentIDs == 0 .. (NumComponentTypes - 1)

\* The keys that send events (values of KeyCode).
KeyCodes == 1 .. NumKeys

\* The system types that get registered, by system type identifier, and the
\* required mask each one declares in its constructor (RequireComponent).
\* Type 0 never calls RequireComponent (the System base default), type 1
\* requires {0} (as TestSystem / HeroSystem do), type 2 requires {0, 1}.
SystemIDs == {0, 1, 2}
SystemMaskOf(s) == IF s = 0 THEN {} ELSE IF s = 1 THEN {0} ELSE {0, 1} \cap ComponentIDs

\* GetComponent's "not present" signal.  Component instances are named by
\* positive numbers (see NewInstance).
nullptr == 0
\* In `last`: the call returned nothing.
NoID == -1

VARIABLES
    m_entityMasks,          \* EntityID -> ComponentMask (a set of ComponentIDs)
    m_entityComponents,     \* EntityID -> (ComponentID -> component instance)
    m_availableEntityIDs,   \* queue of recycled ids
    m_nextEntityID,         \* next fresh id
    m_systems,              \* SystemID -> System
    m_entitiesToDestroy,    \* set of ids pending destruction
    last,                   \* history: the last call, what it returned, and whether it
                            \* found nothing to do (id already pending, component absent)
    hooks,                  \* history: the hooks fired by the last call, in order
    inUse,                  \* history: ids returned by CreateEntity and not torn down since
    regOrder,               \* history: the registered systems, in the order of their
                            \* registration (kept by SpecDispatch only)
    m_running,              \* Engine::m_running
    pc,                     \* where Engine::Run is: "idle" outside of it
    frame,                  \* history: the calls Engine::Run has made so far in the
                            \* current iteration of its loop, in order
    s_componentTypeCounter, \* EntityManager::s_componentTypeCounter
    s_systemTypeCounter,    \* EntityManager::s_systemTypeCounter
    componentTypeID,        \* component type T -> the static typeID of
                            \* GetComponentTypeID<T>, NoID while not initialized
    systemTypeID,           \* the same for GetSystemTypeID<T>
    requested,              \* history: per kind, the types in the order of their
                            \* first request, and whether the EntityManager has
                            \* been replaced since a type was requested
    inCall,                 \* the AddComponent call in progress, step by step
    seen,                   \* history: what each hook of that call observed
    stopped,                \* history: Stop was called during the Run call in progress
    flushed,                \* history: the ids ProcessDestructions has torn down
    stale,                  \* history: the last call went through a handle that
                            \* CreateEntity returned before its id was torn down
    systemObject,           \* held: the object m_systems points to, per system
                            \* type; made (history): the object passed to the
                            \* most recent RegisterSystem of the type
    m_heroes,               \* HeroSystem::m_heroes: hero id -> entity id
    m_heroId,               \* HeroComponent::m_heroId, per component object
    m_keyStates,            \* InputManager: key -> pressed
    m_keyJustPressed,       \* InputManager: key -> pressed since the last Update
    m_keyJustReleased,      \* InputManager: key -> released since the last Update
    keyEvents               \* history: per key, the last Press or Release event
                            \* and the kinds of event since the last Update

vars == <<m_entityMasks, m_entityComponents, m_availableEntityIDs, m_nextEntityID,
          m_systems, m_entitiesToDestroy, last, hooks, inUse,
          regOrder, m_running, pc, frame,
          s_componentTypeCounter, s_systemTypeCounter, componentTypeID, systemTypeID,
          requested, inCall, seen, stopped, flushed, stale, systemObject,
          m_heroes, m_heroId, m_keyStates, m_keyJustPressed, m_keyJustReleased,
          keyEvents>>

\* The state of the EntityManager with its history.
ecsVars == <<m_entityMasks, m_entityComponents, m_availableEntityIDs, m_nextEntityID,
             m_systems, m_entitiesToDestroy, last, hooks, inUse>>

\* The state of the Engine with its history.
engineVars == <<m_running, pc, frame, stopped>>

\* The process-wide type identifier counters with their history.
typeVars == <<s_componentTypeCounter, s_systemTypeCounter, componentTypeID,
              systemTypeID, requested>>

\* The call that is followed step by step, with its history.
stepVars == <<inCall, seen>>

\* The state of the HeroSystem and of its HeroComponents.
heroVars == <<m_heroes, m_heroId>>

\* The key state of the InputManager with its history.
inputVars == <<m_keyStates, m_keyJustPressed, m_keyJustReleased, keyEvents>>

\* The history of the handles the client holds, the system objects, and the
\* state of the classes built on the EntityManager or next to it.
auxVars == <<flushed, stale, systemObject, heroVars, inputVars>>

(***************************************************************************)
(* Containers.                                                             *)
(***************************************************************************)
\* std::unordered_map::operator[] used as an lvalue, and ::erase.
MapPut(f, k, v) == [x \in (DOMAIN f) \cup {k} |-> IF x = k THEN v ELSE f[x]]
MapErase(f, ks) == [x \in (DOMAIN f) \ ks |-> f[x]]
\* std::unordered_map::operator[] used as an rvalue: a missing key is
\* inserted with a value-initialised value.
MapGetOr(f, k, dflt) == IF k \in DOMAIN f THEN f[k] ELSE dflt

EmptyMap == [x \in {} |-> 0]

RECURSIVE SetToSortedSeq(_)
\* The order in which a std::set<EntityID> is iterated: ascending.
SetToSortedSeq(S) ==
    IF S = {} THEN <<>>
    ELSE LET m == CHOOSE x \in S : \A y \in S : x <= y
         IN <<m>> \o SetToSortedSeq(S \ {m})

\* How many times x occurs in the queue q.
Count(q, x) == Cardinality({i \in 1 .. Len(q) : q[i] = x})

(***************************************************************************)
(* System (ecs.h:93-144, 261-279).                                         *)
(***************************************************************************)
\* System::System plus the RequireComponent calls of the derived constructor.
NewSystem(s) == [m_componentMask |-> SystemMaskOf(s), m_entities |-> {}, m_active |-> TRUE]

\* The membership test of AddComponent / RemoveComponent / RegisterSystem.
Matches(entityMask, systemMask) == (entityMask \cap systemMask) = systemMask

\* System::AddEntity: the new subscriber set.
AddEntity(sys, e) == [sys EXCEPT !.m_entities = @ \cup {e}]
\* System::AddEntity always calls OnEntityAdded.
AddEntityHooks(s, sys, e) == << <<"OnEntityAdded", s, e>> >>

\* System::RemoveEntity: the new subscriber set.
RemoveEntity(sys, e) == [sys EXCEPT !.m_entities = @ \ {e}]
\* RemoveEntityHooks without the test of what erase returned.
RemoveEntityHooksUnguarded(s, sys, e) == << <<"OnEntityRemoved", s, e>> >>

\* System::RemoveEntity calls OnEntityRemoved only when erase removed something.
RemoveEntityHooks(s, sys, e) ==
    IF e \in sys.m_entities THEN << <<"OnEntityRemoved", s, e>> >> ELSE <<>>

(***************************************************************************)
(* Queries (ecs.h:383-399, 455-457).                                       *)
(***************************************************************************)
\* The result of a query: `throws` is TRUE when std::unordered_map::at raised
\* std::out_of_range, and `value` is then the empty value of the result type.
Returns(v) == [throws |-> FALSE, value |-> v]
Throws(v) == [throws |-> TRUE, value |-> v]

GetComponentMask(e) ==
    IF e \in DOMAIN m_entityMasks THEN Returns(m_entityMasks[e]) ELSE Throws({})

HasComponent(e, c) ==
    IF e \in DOMAIN m_entityMasks THEN Returns(c \in m_entityMasks[e]) ELSE Throws(FALSE)

\* GetComponent with the test of the mask bit left out.
GetComponentUntested(e, c) ==
    IF e \notin DOMAIN m_entityMasks THEN Throws(nullptr)
    ELSE IF e \notin DOMAIN m_entityComponents THEN Throws(nullptr)
    ELSE IF c \notin DOMAIN m_entityComponents[e] THEN Throws(nullptr)
    ELSE Returns(m_entityComponents[e][c])

GetComponent(e, c) ==
    IF e \notin DOMAIN m_entityMasks THEN Throws(nullptr)
    ELSE IF c \notin m_entityMasks[e] THEN Returns(nullptr)
    ELSE IF e \notin DOMAIN m_entityComponents THEN Throws(nullptr)
    ELSE IF c \notin DOMAIN m_entityComponents[e] THEN Throws(nullptr)
    ELSE Returns(m_entityComponents[e][c])

\* The order in which the hooks of one call are recorded.  m_systems and
\* m_entityMasks are unordered maps, so the order in which one call visits
\* their entries is unspecified; no hook of the base classes reads or writes
\* the manager, so the order is visible in `hooks` only, and `hooks` lists
\* the entries of one loop by ascending key.
SystemOrder == SetToSortedSeq(DOMAIN m_systems)

\* System::GetEntities of a registered system.
GetEntities(s) == m_systems[s].m_entities

\* The handles a caller can hold: every id below m_nextEntityID has been
\* returned by CreateEntity, and handles are freely copyable values.
Handles == 0 .. (m_nextEntityID - 1)

\* The name of the k-th (k = 1, 2) object made for the slot of component c
\* of entity e: a positive number, different for different slots.
Instance(e, c, k) == 2 * (e * (MAX_COMPONENTS + 1) + c) + k

\* std::make_shared<T>: the new object is distinct from every object that is
\* alive when it is made, in particular from the one the slot still holds.
\* The objects of one slot alternate between its two names.
NewInstance(e, c) ==
    LET held == MapGetOr(MapGetOr(m_entityComponents, e, EmptyMap), c, nullptr)
    IN  IF held = Instance(e, c, 1) THEN Instance(e, c, 2) ELSE Instance(e, c, 1)

(***************************************************************************)
(* EntityManager::EntityManager (ecs.h:287-288).                           *)
(***************************************************************************)
Init ==
    /\ m_entityMasks = EmptyMap
    /\ m_entityComponents = EmptyMap
    /\ m_availableEntityIDs = <<>>
    /\ m_nextEntityID = 0
    /\ m_systems = EmptyMap
    /\ m_entitiesToDestroy = {}
    /\ last = [op |-> "EntityManager", ret |-> NoID, noop |-> FALSE]
    /\ hooks = <<>>
    /\ inUse = {}
    /\ regOrder = <<>>
    /\ m_running = FALSE
    /\ pc = "idle"
    /\ frame = <<>>
    /\ s_componentTypeCounter = 0
    /\ s_systemTypeCounter = 0
    /\ componentTypeID = [t \in ComponentTypes |-> NoID]
    /\ systemTypeID = [t \in SystemTypes |-> NoID]
    /\ requested = [component |-> <<>>, system |-> <<>>, replaced |-> FALSE]
    /\ inCall = [pc |-> "idle", e |-> NoID, c |-> NoID, p |-> nullptr, todo |-> <<>>]
    /\ seen = <<>>
    /\ stopped = FALSE
    /\ flushed = {}
    /\ stale = FALSE
    /\ systemObject = [held |-> [s \in SystemIDs |-> nullptr],
                       made |-> [s \in SystemIDs |-> nullptr]]
    /\ m_heroes = EmptyMap
    /\ m_heroId = EmptyMap
    /\ m_keyStates = EmptyMap
    /\ m_keyJustPressed = EmptyMap
    /\ m_keyJustReleased = EmptyMap
    /\ keyEvents = [k \in KeyCodes |-> [last |-> "none", sinceUpdate |-> {}]]

(***************************************************************************)
(* EntityManager::CreateEntity (ecs.h:290-304).                            *)
(***************************************************************************)
\* CreateEntityID with the pool ignored: every identifier is a fresh one.
CreateEntityIDNoRecycling == m_nextEntityID

\* The identifier CreateEntity picks.
CreateEntityID ==
    IF m_availableEntityIDs # <<>> THEN Head(m_availableEntityIDs) ELSE m_nextEntityID

\* CreateEntity with reset() and clear() left out: operator[] alone.
CreateEntityNoReset ==
    /\ m_availableEntityIDs = <<>> => m_nextEntityID < MaxEntityID
    /\ LET id == CreateEntityID IN
        /\ m_availableEntityIDs' =
              IF m_availableEntityIDs # <<>> THEN Tail(m_availableEntityIDs)
              ELSE m_availableEntityIDs
        /\ m_nextEntityID' =
              IF m_availableEntityIDs # <<>> THEN m_nextEntityID ELSE m_nextEntityID + 1
        /\ m_entityMasks' = MapPut(m_entityMasks, id, MapGetOr(m_entityMasks, id, {}))
        /\ m_entityComponents' =
              MapPut(m_entityComponents, id, MapGetOr(m_entityComponents, id, EmptyMap))
        /\ last' = [op |-> "CreateEntity", ret |-> id, noop |-> FALSE]
        /\ hooks' = <<>>
        /\ inUse' = inUse \cup {id}
    /\ UNCHANGED <<m_systems, m_entitiesToDestroy>>

CreateEntity ==
    /\ m_availableEntityIDs = <<>> => m_nextEntityID < MaxEntityID
    /\ LET id == CreateEntityID IN
        /\ m_availableEntityIDs' =
              IF m_availableEntityIDs # <<>> THEN Tail(m_availableEntityIDs)
              ELSE m_availableEntityIDs
        /\ m_nextEntityID' =
              IF m_availableEntityIDs # <<>> THEN m_nextEntityID ELSE m_nextEntityID + 1
        /\ m_entityMasks' = MapPut(m_entityMasks, id, {})
        /\ m_entityComponents' = MapPut(m_entityComponents, id, EmptyMap)
        /\ last' = [op |-> "CreateEntity", ret |-> id, noop |-> FALSE]
        /\ hooks' = <<>>
        /\ inUse' = inUse \cup {id}
    /\ UNCHANGED <<m_systems, m_entitiesToDestroy>>

(***************************************************************************)
(* EntityManager::DestroyEntity (ecs.h:306-308).                           *)
(***************************************************************************)
\* DestroyEntity tearing the entity's mask and components down at once.
DestroyEntityEager(e) ==
    /\ m_entitiesToDestroy' = m_entitiesToDestroy \cup {e}
    /\ m_entityMasks' = MapErase(m_entityMasks, {e})
    /\ m_entityComponents' = MapErase(m_entityComponents, {e})
    /\ last' = [op |-> "DestroyEntity", ret |-> NoID, noop |-> e \in m_entitiesToDestroy]
    /\ hooks' = <<>>
    /\ UNCHANGED <<m_availableEntityIDs, m_nextEntityID, m_systems, inUse>>

\* DestroyEntity flipping the pending mark instead of setting it.
DestroyEntityToggle(e) ==
    /\ m_entitiesToDestroy' =
          IF e \in m_entitiesToDestroy THEN m_entitiesToDestroy \ {e}
          ELSE m_entitiesToDestroy \cup {e}
    /\ last' = [op |-> "DestroyEntity", ret |-> NoID, noop |-> e \in m_entitiesToDestroy]
    /\ hooks' = <<>>
    /\ UNCHANGED <<m_entityMasks, m_entityComponents, m_availableEntityIDs,
                   m_nextEntityID, m_systems, inUse>>

DestroyEntity(e) ==
    /\ m_entitiesToDestroy' = m_entitiesToDestroy \cup {e}
    /\ last' = [op |-> "DestroyEntity", ret |-> NoID, noop |-> e \in m_entitiesToDestroy]
    /\ hooks' = <<>>
    /\ UNCHANGED <<m_entityMasks, m_entityComponents, m_availableEntityIDs,
                   m_nextEntityID, m_systems, inUse>>

(***************************************************************************)
(* EntityManager::ProcessDestructions (ecs.h:310-326).                     *)
(***************************************************************************)
RECURSIVE RemoveEntityHooksOver(_, _)
\* The inner loop: RemoveEntity(e) on every system, in iteration order.
RemoveEntityHooksOver(order, e) ==
    IF order = <<>> THEN <<>>
    ELSE RemoveEntityHooks(Head(order), m_systems[Head(order)], e)
            \o RemoveEntityHooksOver(Tail(order), e)

RECURSIVE ProcessDestructionsHooks(_, _)
\* The outer loop over m_entitiesToDestroy.  No component hook is called:
\* the maps are erased, which only runs the destructors.
ProcessDestructionsHooks(pending, order) ==
    IF pending = <<>> THEN <<>>
    ELSE RemoveEntityHooksOver(order, Head(pending))
            \o ProcessDestructionsHooks(Tail(pending), order)

\* ProcessDestructionsPushed with the push left out.
ProcessDestructionsPushedNothing == <<>>

\* The ids pushed on m_availableEntityIDs, in the order they are pushed.
ProcessDestructionsPushed == SetToSortedSeq(m_entitiesToDestroy)

ProcessDestructions ==
    /\ Len(m_availableEntityIDs) + Cardinality(m_entitiesToDestroy) <= MaxPool
    /\ m_systems' =
          [s \in DOMAIN m_systems |->
              [m_systems[s] EXCEPT !.m_entities = @ \ m_entitiesToDestroy]]
    /\ m_entityComponents' = MapErase(m_entityComponents, m_entitiesToDestroy)
    /\ m_entityMasks' = MapErase(m_entityMasks, m_entitiesToDestroy)
    /\ m_availableEntityIDs' = m_availableEntityIDs \o ProcessDestructionsPushed
    /\ m_entitiesToDestroy' = {}
    /\ last' = [op |-> "ProcessDestructions", ret |-> NoID, noop |-> FALSE]
    /\ hooks' = ProcessDestructionsHooks(SetToSortedSeq(m_entitiesToDestroy), SystemOrder)
    /\ inUse' = inUse \ m_entitiesToDestroy
    /\ UNCHANGED m_nextEntityID

(***************************************************************************)
(* EntityManager::AddComponent (ecs.h:328-352).                            *)
(***************************************************************************)
\* AddComponentStore with emplace in place of the assignment: a component
\* the entity already has is kept.
AddComponentStoreKeep(e, c, p) ==
    IF e \in DOMAIN m_entityComponents /\ c \in DOMAIN m_entityComponents[e]
    THEN m_entityComponents
    ELSE MapPut(m_entityComponents, e, MapPut(MapGetOr(m_entityComponents, e, EmptyMap), c, p))

\* m_entityComponents[entity][componentID] = component
AddComponentStore(e, c, p) ==
    MapPut(m_entityComponents, e, MapPut(MapGetOr(m_entityComponents, e, EmptyMap), c, p))

\* m_entityMasks[entity].set(componentID)
AddComponentMasks(e, c) ==
    MapPut(m_entityMasks, e, MapGetOr(m_entityMasks, e, {}) \cup {c})

\* The loop over m_systems: AddEntity on every system the new mask matches.
AddComponentSystems(e, mask) ==
    [s \in DOMAIN m_systems |->
        IF Matches(mask, m_systems[s].m_componentMask)
        THEN AddEntity(m_systems[s], e) ELSE m_systems[s]]

RECURSIVE AddComponentHooks(_, _, _)
AddComponentHooks(order, e, mask) ==
    IF order = <<>> THEN <<>>
    ELSE (IF Matches(mask, m_systems[Head(order)].m_componentMask)
          THEN AddEntityHooks(Head(order), m_systems[Head(order)], e) ELSE <<>>)
            \o AddComponentHooks(Tail(order), e, mask)

\* std::bitset::set(pos) throws std::out_of_range when pos is not below the
\* width of the mask; operator[] on m_entityMasks has been evaluated by then.
\* The call is then left by the exception: last.ret is NoID.
AddComponent(e, c) ==
    LET p == NewInstance(e, c)
        masks == AddComponentMasks(e, c)
    IN  IF c >= MAX_COMPONENTS
        THEN /\ m_entityComponents' = AddComponentStore(e, c, p)
             /\ m_entityMasks' = MapPut(m_entityMasks, e, MapGetOr(m_entityMasks, e, {}))
             /\ last' = [op |-> "AddComponent", ret |-> NoID, noop |-> FALSE]
             /\ hooks' = <<>>
             /\ UNCHANGED <<m_availableEntityIDs, m_nextEntityID, m_systems,
                            m_entitiesToDestroy, inUse>>
        ELSE /\ m_entityComponents' = AddComponentStore(e, c, p)
             /\ m_entityMasks' = masks
             /\ m_systems' = AddComponentSystems(e, masks[e])
             /\ last' = [op |-> "AddComponent", ret |-> p, noop |-> FALSE]
             /\ hooks' = << <<"Initialize", p>> >>
                             \o AddComponentHooks(SystemOrder, e, masks[e])
             /\ UNCHANGED <<m_availableEntityIDs, m_nextEntityID, m_entitiesToDestroy, inUse>>

(***************************************************************************)
(* EntityManager::RemoveComponent (ecs.h:354-381).                         *)
(***************************************************************************)
\* m_entityMasks[entity].test(componentID): operator[] inserts an empty mask
\* for an id the map does not hold.
RemoveComponentTest(e, c) == c \in MapGetOr(m_entityMasks, e, {})

\* RemoveComponentStore with clear() in place of erase(componentID).
RemoveComponentStoreClear(e, c) == MapPut(m_entityComponents, e, EmptyMap)

\* m_entityComponents[entity].erase(componentID)
RemoveComponentStore(e, c) ==
    MapPut(m_entityComponents, e, MapErase(MapGetOr(m_entityComponents, e, EmptyMap), {c}))

\* RemoveComponentMasks with the reset left out.
RemoveComponentMasksNoReset(e, c) ==
    MapPut(m_entityMasks, e, MapGetOr(m_entityMasks, e, {}))

\* m_entityMasks[entity].reset(componentID)
RemoveComponentMasks(e, c) ==
    MapPut(m_entityMasks, e, MapGetOr(m_entityMasks, e, {}) \ {c})

\* The loop over m_systems: RemoveEntity on every system the mask fails.
RemoveComponentSystems(e, mask) ==
    [s \in DOMAIN m_systems |->
        IF ~Matches(mask, m_systems[s].m_componentMask)
        THEN RemoveEntity(m_systems[s], e) ELSE m_systems[s]]

RECURSIVE RemoveComponentHooks(_, _, _)
RemoveComponentHooks(order, e, mask) ==
    IF order = <<>> THEN <<>>
    ELSE (IF ~Matches(mask, m_systems[Head(order)].m_componentMask)
          THEN RemoveEntityHooks(Head(order), m_systems[Head(order)], e) ELSE <<>>)
            \o RemoveComponentHooks(Tail(order), e, mask)

RemoveComponent(e, c) ==
    /\ last' = [op |-> "RemoveComponent", ret |-> NoID, noop |-> ~RemoveComponentTest(e, c)]
    /\ IF ~RemoveComponentTest(e, c)
       THEN /\ m_entityMasks' = MapPut(m_entityMasks, e, MapGetOr(m_entityMasks, e, {}))
            /\ hooks' = <<>>
            /\ UNCHANGED <<m_entityComponents, m_systems>>
       ELSE LET masks == RemoveComponentMasks(e, c) IN
            /\ m_entityComponents' = RemoveComponentStore(e, c)
            /\ m_entityMasks' = masks
            /\ m_systems' = RemoveComponentSystems(e, masks[e])
            /\ hooks' = << <<"Finalize", m_entityComponents[e][c]>> >>
                            \o RemoveComponentHooks(SystemOrder, e, masks[e])
    /\ UNCHANGED <<m_availableEntityIDs, m_nextEntityID, m_entitiesToDestroy, inUse>>

(***************************************************************************)
(* EntityManager::RegisterSystem (ecs.h:401-425).                          *)
(***************************************************************************)
\* The scan of m_entityMasks: the entities the new system picks up.
RegisterSystemEntities(s) ==
    {e \in DOMAIN m_entityMasks : Matches(m_entityMasks[e], SystemMaskOf(s))}

RECURSIVE RegisterSystemHooks(_, _)
RegisterSystemHooks(s, eorder) ==
    IF eorder = <<>> THEN <<>>
    ELSE (IF Matches(m_entityMasks[Head(eorder)], SystemMaskOf(s))
          THEN AddEntityHooks(s, NewSystem(s), Head(eorder)) ELSE <<>>)
            \o RegisterSystemHooks(s, Tail(eorder))

RegisterSystem(s) ==
    /\ m_systems' = MapPut(m_systems, s,
                           [NewSystem(s) EXCEPT !.m_entities = RegisterSystemEntities(s)])
    /\ last' = [op |-> "RegisterSystem", ret |-> NoID, noop |-> FALSE]
    /\ hooks' = << <<"SystemInitialize", s>> >> \o RegisterSystemHooks(s, SetToSortedSeq(DOMAIN m_entityMasks))
    /\ UNCHANGED <<m_entityMasks, m_entityComponents, m_availableEntityIDs,
                   m_nextEntityID, m_entitiesToDestroy, inUse>>

(***************************************************************************)
(* The calls a client can make, in any order.                              *)
(***************************************************************************)
Next ==
    \/ /\ m_availableEntityIDs = <<>> => m_nextEntityID < MaxStoreEntityID
       /\ CreateEntity
       /\ UNCHANGED <<regOrder, engineVars, typeVars, stepVars, auxVars>>
    \/ \E e \in Handles : DestroyEntity(e) /\ UNCHANGED <<regOrder, engineVars, typeVars, stepVars, auxVars>>
    \/ /\ Len(m_availableEntityIDs) + Cardinality(m_entitiesToDestroy) <= MaxStorePool
       /\ ProcessDestructions
       /\ UNCHANGED <<regOrder, engineVars, typeVars, stepVars, auxVars>>
    \/ \E e \in Handles, c \in ComponentIDs :
          AddComponent(e, c) /\ UNCHANGED <<regOrder, engineVars, typeVars, stepVars, auxVars>>
    \/ \E e \in Handles, c \in ComponentIDs :
          RemoveComponent(e, c) /\ UNCHANGED <<regOrder, engineVars, typeVars, stepVars, auxVars>>
    \/ \E s \in SystemIDs :
          RegisterSystem(s) /\ UNCHANGED <<regOrder, engineVars, typeVars, stepVars, auxVars>>

Spec == Init /\ [][Next]_vars

\* The entity registry alone: clients that only create, destroy and flush.
NextRegistry ==
    \/ CreateEntity /\ UNCHANGED <<regOrder, engineVars, typeVars, stepVars, auxVars>>
    \/ \E e \in Handles : DestroyEntity(e) /\ UNCHANGED <<regOrder, engineVars, typeVars, stepVars, auxVars>>
    \/ ProcessDestructions /\ UNCHANGED <<regOrder, engineVars, typeVars, stepVars, auxVars>>

SpecRegistry == Init /\ [][NextRegistry]_vars

(***************************************************************************)
(* System::SetActive (ecs.h:127).                                          *)
(***************************************************************************)
SetActive(s, active) ==
    /\ s \in DOMAIN m_systems
    /\ m_systems' = [m_systems EXCEPT ![s].m_active = active]
    /\ last' = [op |-> "SetActive", ret |-> NoID, noop |-> FALSE]
    /\ hooks' = <<>>
    /\ UNCHANGED <<m_entityMasks, m_entityComponents, m_availableEntityIDs,
                   m_nextEntityID, m_entitiesToDestroy, inUse>>

(***************************************************************************)
(* EntityManager::UpdateSystems / RenderSystems (ecs.h:439-453).           *)
(* m_systems is a std::unordered_map (ecs.h:169-170): the order in which   *)
(* the range-for visits the systems is unspecified, so a dispatch may      *)
(* visit them in any order.                                                *)
(***************************************************************************)
\* The orders in which a set can be visited.
Orders(S) ==
    {q \in [1..Cardinality(S) -> S] : \A i, j \in 1..Cardinality(S) : i # j => q[i] # q[j]}

\* Dispatch with the IsActive() test left out.
RECURSIVE DispatchAll(_, _)
DispatchAll(call, order) ==
    IF order = <<>> THEN <<>>
    ELSE << <<call, Head(order)>> >> \o DispatchAll(call, Tail(order))

\* The calls (Update or Render) a dispatch makes on the systems it visits in
\* this order: only systems whose IsActive() is true are called.
RECURSIVE Dispatch(_, _)
Dispatch(call, order) ==
    IF order = <<>> THEN <<>>
    ELSE (IF m_systems[Head(order)].m_active THEN << <<call, Head(order)>> >> ELSE <<>>)
            \o Dispatch(call, Tail(order))

UpdateSystems(order) ==
    /\ last' = [op |-> "UpdateSystems", ret |-> NoID, noop |-> FALSE]
    /\ hooks' = Dispatch("Update", order)
    /\ UNCHANGED <<m_entityMasks, m_entityComponents, m_availableEntityIDs,
                   m_nextEntityID, m_systems, m_entitiesToDestroy, inUse>>

RenderSystems(order) ==
    /\ last' = [op |-> "RenderSystems", ret |-> NoID, noop |-> FALSE]
    /\ hooks' = Dispatch("Render", order)
    /\ UNCHANGED <<m_entityMasks, m_entityComponents, m_availableEntityIDs,
                   m_nextEntityID, m_systems, m_entitiesToDestroy, inUse>>

\* RegisterSystem with the registration recorded: a system object that
\* replaces the one of its type is the one registered last.
RegisterSystemInOrder(s) ==
    /\ RegisterSystem(s)
    /\ regOrder' = Append(SelectSeq(regOrder, LAMBDA t : t # s), s)

\* System registration, enabling and disabling, and dispatch.
NextDispatch ==
    \/ \E s \in SystemIDs : RegisterSystemInOrder(s) /\ UNCHANGED <<engineVars, typeVars, stepVars, auxVars>>
    \/ \E s \in SystemIDs, active \in BOOLEAN :
          SetActive(s, active) /\ UNCHANGED <<regOrder, engineVars, typeVars, stepVars, auxVars>>
    \/ \E order \in Orders(DOMAIN m_systems) :
          UpdateSystems(order) /\ UNCHANGED <<regOrder, engineVars, typeVars, stepVars, auxVars>>
    \/ \E order \in Orders(DOMAIN m_systems) :
          RenderSystems(order) /\ UNCHANGED <<regOrder, engineVars, typeVars, stepVars, auxVars>>

SpecDispatch == Init /\ [][NextDispatch]_vars

(***************************************************************************)
(* Engine::Run (engine.h:162-213), one action per step of its loop.  The   *)
(* callbacks are client code: while one runs, and while Run is not running,*)
(* the client can call the EntityManager.  Stop can be called at any time  *)
(* (test_engine.cpp calls it from a second thread; m_running is atomic).   *)
(***************************************************************************)
\* The entries of frame for the calls Run makes on the EntityManager.
FlushCall == <<"ProcessDestructions", NoID>>
UpdateCall == <<"UpdateSystems", NoID>>
RenderCall == <<"RenderSystems", NoID>>

\* Run is called: it goes on only when m_running is not set.
Run ==
    /\ pc = "idle"
    /\ ~m_running
    /\ pc' = "start"
    /\ frame' = <<>>
    /\ UNCHANGED <<ecsVars, typeVars, stepVars, auxVars, regOrder, m_running, stopped>>

\* m_running = true
RunStart ==
    /\ pc = "start"
    /\ m_running' = TRUE
    /\ pc' = "loop"
    /\ UNCHANGED <<ecsVars, typeVars, stepVars, auxVars, regOrder, frame, stopped>>

\* while (m_running): a new iteration starts, or Run returns.
RunLoop ==
    /\ pc = "loop"
    /\ IF m_running
       THEN pc' = "flush" /\ frame' = <<>> /\ stopped' = stopped
       ELSE pc' = "idle" /\ frame' = frame /\ stopped' = FALSE
    /\ UNCHANGED <<ecsVars, typeVars, stepVars, auxVars, regOrder, m_running>>

\* RunProcessDestructions with the flush left out.
RunWithoutProcessDestructions ==
    /\ pc = "flush"
    /\ pc' = "update"
    /\ UNCHANGED <<ecsVars, typeVars, stepVars, auxVars, regOrder, m_running, frame, stopped>>

\* m_entityManager->ProcessDestructions()
RunProcessDestructions ==
    /\ pc = "flush"
    /\ ProcessDestructions
    /\ frame' = Append(frame, FlushCall)
    /\ pc' = "update"
    /\ UNCHANGED <<typeVars, stepVars, auxVars, regOrder, m_running, stopped>>

\* Engine::Update (engine.h:219-227): UpdateSystems, then the update callback.
Update(order) ==
    /\ pc = "update"
    /\ UpdateSystems(order)
    /\ frame' = Append(frame, UpdateCall) \o hooks'
    /\ pc' = "updateCallback"
    /\ UNCHANGED <<typeVars, stepVars, auxVars, regOrder, m_running, stopped>>

\* The update callback returns.
UpdateReturn ==
    /\ pc = "updateCallback"
    /\ pc' = "fixedUpdate"
    /\ UNCHANGED <<ecsVars, typeVars, stepVars, auxVars, regOrder, m_running, frame, stopped>>

\* Engine::FixedUpdate (engine.h:239-244) runs the fixed-update callback zero
\* or more times; this is the end of that inner loop.
FixedUpdate ==
    /\ pc = "fixedUpdate"
    /\ pc' = "render"
    /\ UNCHANGED <<ecsVars, typeVars, stepVars, auxVars, regOrder, m_running, frame, stopped>>

\* Engine::Render (engine.h:229-237): RenderSystems, then the render callback.
Render(order) ==
    /\ pc = "render"
    /\ RenderSystems(order)
    /\ frame' = Append(frame, RenderCall) \o hooks'
    /\ pc' = "renderCallback"
    /\ UNCHANGED <<typeVars, stepVars, auxVars, regOrder, m_running, stopped>>

\* The render callback returns.
RenderReturn ==
    /\ pc = "renderCallback"
    /\ pc' = "limit"
    /\ UNCHANGED <<ecsVars, typeVars, stepVars, auxVars, regOrder, m_running, frame, stopped>>

\* Frame rate limiting: the iteration ends.
RunFrameLimit ==
    /\ pc = "limit"
    /\ pc' = "loop"
    /\ UNCHANGED <<ecsVars, typeVars, stepVars, auxVars, regOrder, m_running, frame, stopped>>

\* Engine::Stop (engine.h:215-217).
Stop ==
    /\ m_running' = FALSE
    /\ stopped' = (stopped \/ pc # "idle")
    /\ UNCHANGED <<ecsVars, typeVars, stepVars, auxVars, regOrder, pc, frame>>

\* Client code runs: Run has not been called, or one of its callbacks runs.
InClientCode == pc \in {"idle", "updateCallback", "fixedUpdate", "renderCallback"}

\* An engine whose systems are registered before Run is called
\* (test_engine.cpp:217-227) and whose client creates and destroys entities.
NextEngine ==
    \/ \E s \in SystemIDs :
          pc = "idle" /\ RegisterSystem(s) /\ UNCHANGED <<regOrder, engineVars, typeVars, stepVars, auxVars>>
    \/ /\ InClientCode
       /\ m_availableEntityIDs = <<>> => m_nextEntityID < MaxStoreEntityID
       /\ CreateEntity
       /\ UNCHANGED <<regOrder, engineVars, typeVars, stepVars, auxVars>>
    \/ \E e \in Handles :
          /\ InClientCode
          /\ Len(m_availableEntityIDs) + Cardinality(m_entitiesToDestroy \cup {e})
                <= MaxStorePool
          /\ DestroyEntity(e)
          /\ UNCHANGED <<regOrder, engineVars, typeVars, stepVars, auxVars>>
    \/ Run
    \/ RunStart
    \/ RunLoop
    \/ RunProcessDestructions
    \/ \E order \in Orders(DOMAIN m_systems) : Update(order)
    \/ UpdateReturn
    \/ FixedUpdate
    \/ \E order \in Orders(DOMAIN m_systems) : Render(order)
    \/ RenderReturn
    \/ RunFrameLimit
    \/ Stop

SpecEngine == Init /\ [][NextEngine]_vars

(***************************************************************************)
(* EntityManager::GetComponentTypeID / GetSystemTypeID (ecs.h:459-469).    *)
(* `static const ComponentID typeID = s_componentTypeCounter++` runs once  *)
(* per type T, on the first call of the instantiation for T; the counters  *)
(* are static members (ecs.h:152-155, 284-285).  The counters are 32 bits  *)
(* wide and a program has far fewer types, so they do not wrap.            *)
(***************************************************************************)
\* GetComponentTypeID without `static`: the counter is taken on every call.
GetComponentTypeIDFresh(t) ==
    /\ componentTypeID' = [componentTypeID EXCEPT ![t] = s_componentTypeCounter]
    /\ s_componentTypeCounter' = s_componentTypeCounter + 1
    /\ requested' = [requested EXCEPT !.component =
                        IF componentTypeID[t] = NoID THEN Append(@, t) ELSE @]
    /\ last' = [op |-> "GetComponentTypeID", ret |-> componentTypeID'[t],
                noop |-> componentTypeID[t] # NoID]
    /\ UNCHANGED <<m_entityMasks, m_entityComponents, m_availableEntityIDs,
                   m_nextEntityID, m_systems, m_entitiesToDestroy, hooks, inUse,
                   s_systemTypeCounter, systemTypeID>>

GetComponentTypeID(t) ==
    /\ IF componentTypeID[t] = NoID
       THEN /\ componentTypeID' = [componentTypeID EXCEPT ![t] = s_componentTypeCounter]
            /\ s_componentTypeCounter' = s_componentTypeCounter + 1
            /\ requested' = [requested EXCEPT !.component = Append(@, t)]
       ELSE UNCHANGED <<componentTypeID, s_componentTypeCounter, requested>>
    /\ last' = [op |-> "GetComponentTypeID", ret |-> componentTypeID'[t],
                noop |-> componentTypeID[t] # NoID]
    /\ UNCHANGED <<m_entityMasks, m_entityComponents, m_availableEntityIDs,
                   m_nextEntityID, m_systems, m_entitiesToDestroy, hooks, inUse,
                   s_systemTypeCounter, systemTypeID>>

GetSystemTypeID(t) ==
    /\ IF systemTypeID[t] = NoID
       THEN /\ systemTypeID' = [systemTypeID EXCEPT ![t] = s_systemTypeCounter]
            /\ s_systemTypeCounter' = s_systemTypeCounter + 1
            /\ requested' = [requested EXCEPT !.system = Append(@, t)]
       ELSE UNCHANGED <<systemTypeID, s_systemTypeCounter, requested>>
    /\ last' = [op |-> "GetSystemTypeID", ret |-> systemTypeID'[t],
                noop |-> systemTypeID[t] # NoID]
    /\ UNCHANGED <<m_entityMasks, m_entityComponents, m_availableEntityIDs,
                   m_nextEntityID, m_systems, m_entitiesToDestroy, hooks, inUse,
                   s_componentTypeCounter, componentTypeID>>

(***************************************************************************)
(* Engine::Shutdown (engine.h:149-160), called while Run is not running:   *)
(* Stop, the shutdown callback, then a new EntityManager replaces the old  *)
(* one.  The static counters and typeIDs belong to no EntityManager.       *)
(***************************************************************************)
Shutdown ==
    /\ pc = "idle"
    /\ m_running' = FALSE
    /\ m_entityMasks' = EmptyMap
    /\ m_entityComponents' = EmptyMap
    /\ m_availableEntityIDs' = <<>>
    /\ m_nextEntityID' = 0
    /\ m_systems' = EmptyMap
    /\ m_entitiesToDestroy' = {}
    /\ last' = [op |-> "Shutdown", ret |-> NoID, noop |-> FALSE]
    /\ hooks' = <<>>
    /\ inUse' = {}
    /\ regOrder' = <<>>
    /\ requested' = [requested EXCEPT !.replaced =
                        @ \/ requested.component # <<>> \/ requested.system # <<>>]
    /\ systemObject' = [held |-> [s \in SystemIDs |-> nullptr],
                        made |-> [s \in SystemIDs |-> nullptr]]
    /\ UNCHANGED <<pc, frame, stopped, s_componentTypeCounter, s_systemTypeCounter,
                   componentTypeID, systemTypeID, stepVars, flushed, stale, heroVars, inputVars>>

\* A program that requests type identifiers, creates entities and replaces
\* its EntityManager.
NextTypeIDs ==
    \/ \E t \in ComponentTypes :
          GetComponentTypeID(t) /\ UNCHANGED <<regOrder, engineVars, stepVars, auxVars>>
    \/ \E t \in SystemTypes :
          GetSystemTypeID(t) /\ UNCHANGED <<regOrder, engineVars, stepVars, auxVars>>
    \/ /\ m_nextEntityID < MaxStoreEntityID
       /\ CreateEntity
       /\ UNCHANGED <<regOrder, engineVars, typeVars, stepVars, auxVars>>
    \/ Shutdown

SpecTypeIDs == Init /\ [][NextTypeIDs]_vars

(***************************************************************************)
(* EntityManager::AddComponent (ecs.h:328-352) statement by statement, so  *)
(* that what its hooks can observe while it runs is a state of the model.  *)
(* Initialize and OnEntityAdded are virtual: they run code of the client   *)
(* in the middle of the call.  `seen` records, for each hook, what         *)
(* HasComponent<T> and GetComponent<T> answer at the time it is called.    *)
(***************************************************************************)
Observed(hook, s) ==
    [hook |-> hook, system |-> s,
     has |-> HasComponent(inCall.e, inCall.c),
     get |-> GetComponent(inCall.e, inCall.c)]

\* make_shared and m_entityComponents[entity][componentID] = component
AddComponentStoreStep(e, c) ==
    /\ inCall.pc = "idle"
    /\ m_entityComponents' = AddComponentStore(e, c, NewInstance(e, c))
    /\ inCall' = [pc |-> "mask", e |-> e, c |-> c, p |-> NewInstance(e, c), todo |-> <<>>]
    /\ seen' = <<>>
    /\ UNCHANGED <<m_entityMasks, m_availableEntityIDs, m_nextEntityID, m_systems,
                   m_entitiesToDestroy, last, hooks, inUse>>

\* AddComponentMaskStep with the statement left out.
AddComponentMaskStepSkipped ==
    /\ inCall.pc = "mask"
    /\ inCall' = [inCall EXCEPT !.pc = "initialize"]
    /\ UNCHANGED <<ecsVars, seen>>

\* m_entityMasks[entity].set(componentID)
AddComponentMaskStep ==
    /\ inCall.pc = "mask"
    /\ m_entityMasks' = AddComponentMasks(inCall.e, inCall.c)
    /\ inCall' = [inCall EXCEPT !.pc = "initialize"]
    /\ UNCHANGED <<m_entityComponents, m_availableEntityIDs, m_nextEntityID, m_systems,
                   m_entitiesToDestroy, last, hooks, inUse, seen>>

\* component->Initialize(); the loop over m_systems starts.
AddComponentInitializeStep ==
    /\ inCall.pc = "initialize"
    /\ seen' = Append(seen, Observed("Initialize", NoID))
    /\ inCall' = [inCall EXCEPT !.pc = "systems", !.todo = SystemOrder]
    /\ UNCHANGED ecsVars

\* One iteration of the loop over m_systems: AddEntity, which calls
\* OnEntityAdded, when the mask matches.
AddComponentSystemStep ==
    /\ inCall.pc = "systems"
    /\ inCall.todo # <<>>
    /\ LET s == Head(inCall.todo) IN
        IF Matches(m_entityMasks[inCall.e], m_systems[s].m_componentMask)
        THEN /\ m_systems' = [m_systems EXCEPT ![s] = AddEntity(@, inCall.e)]
             /\ seen' = Append(seen, Observed("OnEntityAdded", s))
        ELSE UNCHANGED <<m_systems, seen>>
    /\ inCall' = [inCall EXCEPT !.todo = Tail(@)]
    /\ UNCHANGED <<m_entityMasks, m_entityComponents, m_availableEntityIDs,
                   m_nextEntityID, m_entitiesToDestroy, last, hooks, inUse>>

\* return static_cast<T*>(component.get())
AddComponentReturnStep ==
    /\ inCall.pc = "systems"
    /\ inCall.todo = <<>>
    /\ inCall' = [inCall EXCEPT !.pc = "idle"]
    /\ last' = [op |-> "AddComponent", ret |-> inCall.p, noop |-> FALSE]
    /\ hooks' = [i \in 1..Len(seen) |->
                    IF seen[i].hook = "Initialize" THEN <<"Initialize", inCall.p>>
                    ELSE <<"OnEntityAdded", seen[i].system, inCall.e>>]
    /\ UNCHANGED <<m_entityMasks, m_entityComponents, m_availableEntityIDs,
                   m_nextEntityID, m_systems, m_entitiesToDestroy, inUse, seen>>

\* A client that creates entities, registers systems, detaches, and attaches
\* step by step.
NextAttach ==
    \/ /\ inCall.pc = "idle"
       /\ m_nextEntityID < MaxStoreEntityID
       /\ CreateEntity
       /\ UNCHANGED <<regOrder, engineVars, typeVars, stepVars, auxVars>>
    \/ \E s \in SystemIDs :
          /\ inCall.pc = "idle"
          /\ RegisterSystem(s)
          /\ UNCHANGED <<regOrder, engineVars, typeVars, stepVars, auxVars>>
    \/ \E e \in Handles, c \in ComponentIDs :
          /\ inCall.pc = "idle"
          /\ RemoveComponent(e, c)
          /\ UNCHANGED <<regOrder, engineVars, typeVars, stepVars, auxVars>>
    \/ \E e \in Handles, c \in ComponentIDs :
          AddComponentStoreStep(e, c) /\ UNCHANGED <<regOrder, engineVars, typeVars, auxVars>>
    \/ AddComponentMaskStep /\ UNCHANGED <<regOrder, engineVars, typeVars, auxVars>>
    \/ AddComponentInitializeStep /\ UNCHANGED <<regOrder, engineVars, typeVars, auxVars>>
    \/ AddComponentSystemStep /\ UNCHANGED <<regOrder, engineVars, typeVars, auxVars>>
    \/ AddComponentReturnStep /\ UNCHANGED <<regOrder, engineVars, typeVars, auxVars>>

SpecAttach == Init /\ [][NextAttach]_vars


(***************************************************************************)
(* EntityManager::ProcessDestructions (ecs.h:310-326) statement by         *)
(* statement.  OnEntityRemoved is virtual: it runs code of the client in   *)
(* the middle of the flush, and that code may call DestroyEntity.  `seen`  *)
(* records what the handle of the entity answers when the range-for        *)
(* reaches the entity and when each of its hooks is called.                *)
(***************************************************************************)
\* What the handle of entity e answers at this point of the flush.
ObservedEntity(hook, s, e) ==
    [hook |-> hook, system |-> s, entity |-> e,
     mask |-> GetComponentMask(e),
     get |-> [c \in ComponentIDs |-> GetComponent(e, c)],
     pooled |-> Count(m_availableEntityIDs, e)]

\* The element the iterator of the std::set m_entitiesToDestroy moves to from
\* e: the least element above e at the time of the increment, NoID at end().
NextPending(e) ==
    LET later == {x \in m_entitiesToDestroy : x > e} IN
    IF later = {} THEN NoID ELSE CHOOSE x \in later : \A y \in later : x <= y

\* The position of the flush when the iterator has moved to entity e.
ProcessDestructionsAt(e) ==
    IF e = NoID
    THEN [pc |-> "clear", e |-> NoID, c |-> NoID, p |-> nullptr, todo |-> <<>>]
    ELSE [pc |-> "removeEntity", e |-> e, c |-> NoID, p |-> nullptr, todo |-> SystemOrder]

\* for (EntityID entity : m_entitiesToDestroy): begin()
ProcessDestructionsBeginStep ==
    /\ inCall.pc = "idle"
    /\ inCall' = ProcessDestructionsAt(NextPending(NoID))
    /\ seen' = IF NextPending(NoID) = NoID THEN <<>>
               ELSE <<ObservedEntity("for", NoID, NextPending(NoID))>>
    /\ UNCHANGED ecsVars

\* ProcessDestructionsSystemStep with the erase statements of the entity
\* moved in front of the loop over m_systems.
ProcessDestructionsSystemStepErasingFirst ==
    /\ inCall.pc = "removeEntity"
    /\ inCall.todo # <<>>
    /\ m_entityComponents' = MapErase(m_entityComponents, {inCall.e})
    /\ m_entityMasks' = MapErase(m_entityMasks, {inCall.e})
    /\ LET s == Head(inCall.todo) IN
        /\ m_systems' = [m_systems EXCEPT ![s] = RemoveEntity(@, inCall.e)]
        /\ IF RemoveEntityHooks(s, m_systems[s], inCall.e) # <<>>
           THEN /\ seen' = Append(seen,
                      [hook |-> "OnEntityRemoved", system |-> s, entity |-> inCall.e,
                       mask |-> Throws({}),
                       get |-> [c \in ComponentIDs |-> Throws(nullptr)],
                       pooled |-> Count(m_availableEntityIDs, inCall.e)])
                /\ inCall' = [inCall EXCEPT !.pc = "OnEntityRemoved"]
           ELSE /\ seen' = seen
                /\ inCall' = [inCall EXCEPT !.todo = Tail(@)]
    /\ UNCHANGED <<m_availableEntityIDs, m_nextEntityID, m_entitiesToDestroy,
                   last, hooks, inUse>>

\* One iteration of the loop over m_systems: System::RemoveEntity erases the
\* entity from the subscriber set and, when it was there, calls
\* OnEntityRemoved.
ProcessDestructionsSystemStep ==
    /\ inCall.pc = "removeEntity"
    /\ inCall.todo # <<>>
    /\ LET s == Head(inCall.todo) IN
        /\ m_systems' = [m_systems EXCEPT ![s] = RemoveEntity(@, inCall.e)]
        /\ IF RemoveEntityHooks(s, m_systems[s], inCall.e) # <<>>
           THEN /\ seen' = Append(seen, ObservedEntity("OnEntityRemoved", s, inCall.e))
                /\ inCall' = [inCall EXCEPT !.pc = "OnEntityRemoved"]
           ELSE /\ seen' = seen
                /\ inCall' = [inCall EXCEPT !.todo = Tail(@)]
    /\ UNCHANGED <<m_entityMasks, m_entityComponents, m_availableEntityIDs,
                   m_nextEntityID, m_entitiesToDestroy, last, hooks, inUse>>

\* Code of the client inside OnEntityRemoved: a DestroyEntity call.
OnEntityRemovedDestroyEntity(x) ==
    /\ inCall.pc = "OnEntityRemoved"
    /\ DestroyEntity(x)
    /\ UNCHANGED stepVars

\* OnEntityRemoved returns to the loop over m_systems.
OnEntityRemovedReturnStep ==
    /\ inCall.pc = "OnEntityRemoved"
    /\ inCall' = [inCall EXCEPT !.pc = "removeEntity", !.todo = Tail(@)]
    /\ UNCHANGED <<ecsVars, seen>>

\* m_entityComponents.erase(entity); m_entityMasks.erase(entity)
ProcessDestructionsEraseStep ==
    /\ inCall.pc = "removeEntity"
    /\ inCall.todo = <<>>
    /\ m_entityComponents' = MapErase(m_entityComponents, {inCall.e})
    /\ m_entityMasks' = MapErase(m_entityMasks, {inCall.e})
    /\ inCall' = [inCall EXCEPT !.pc = "push"]
    /\ UNCHANGED <<m_availableEntityIDs, m_nextEntityID, m_systems,
                   m_entitiesToDestroy, last, hooks, inUse, seen>>

\* m_availableEntityIDs.push(entity), and the iterator moves on.
ProcessDestructionsPushStep ==
    /\ inCall.pc = "push"
    /\ m_availableEntityIDs' = Append(m_availableEntityIDs, inCall.e)
    /\ inUse' = inUse \ {inCall.e}
    /\ inCall' = ProcessDestructionsAt(NextPending(inCall.e))
    /\ seen' = IF NextPending(inCall.e) = NoID THEN seen
               ELSE Append(seen, ObservedEntity("for", NoID, NextPending(inCall.e)))
    /\ UNCHANGED <<m_entityMasks, m_entityComponents, m_nextEntityID, m_systems,
                   m_entitiesToDestroy, last, hooks>>

\* m_entitiesToDestroy.clear(), and the call returns.
ProcessDestructionsClearStep ==
    /\ inCall.pc = "clear"
    /\ m_entitiesToDestroy' = {}
    /\ inCall' = [inCall EXCEPT !.pc = "idle"]
    /\ last' = [op |-> "ProcessDestructions", ret |-> NoID, noop |-> FALSE]
    /\ hooks' = SelectSeq([i \in 1 .. Len(seen) |->
                              <<seen[i].hook, seen[i].system, seen[i].entity>>],
                          LAMBDA h : h[1] = "OnEntityRemoved")
    /\ seen' = <<>>
    /\ UNCHANGED <<m_entityMasks, m_entityComponents, m_availableEntityIDs,
                   m_nextEntityID, m_systems, inUse>>

\* A client that registers its systems first, as main does
\* (test_engine.cpp:217-227), then creates entities, attaches components and
\* requests destructions, also from inside OnEntityRemoved, and a flush that
\* runs step by step.
NextFlush ==
    \/ /\ inCall.pc = "idle"
       /\ m_availableEntityIDs = <<>> => m_nextEntityID < MaxStoreEntityID
       /\ CreateEntity
       /\ UNCHANGED <<regOrder, engineVars, typeVars, stepVars, auxVars>>
    \/ \E e \in inUse, c \in ComponentIDs :
          /\ inCall.pc = "idle"
          /\ AddComponent(e, c)
          /\ UNCHANGED <<regOrder, engineVars, typeVars, stepVars, auxVars>>
    \/ \E s \in SystemIDs :
          /\ inCall.pc = "idle"
          /\ m_nextEntityID = 0
          /\ RegisterSystem(s)
          /\ UNCHANGED <<regOrder, engineVars, typeVars, stepVars, auxVars>>
    \/ \E e \in Handles :
          /\ inCall.pc = "idle"
          /\ DestroyEntity(e)
          /\ UNCHANGED <<regOrder, engineVars, typeVars, stepVars, auxVars>>
    \/ /\ Len(m_availableEntityIDs) + Cardinality(m_entitiesToDestroy) + 1 <= MaxStorePool
       /\ ProcessDestructionsBeginStep
       /\ UNCHANGED <<regOrder, engineVars, typeVars, auxVars>>
    \/ ProcessDestructionsSystemStep /\ UNCHANGED <<regOrder, engineVars, typeVars, auxVars>>
    \/ \E x \in Handles :
          OnEntityRemovedDestroyEntity(x) /\ UNCHANGED <<regOrder, engineVars, typeVars, auxVars>>
    \/ OnEntityRemovedReturnStep /\ UNCHANGED <<regOrder, engineVars, typeVars, auxVars>>
    \/ ProcessDestructionsEraseStep /\ UNCHANGED <<regOrder, engineVars, typeVars, auxVars>>
    \/ ProcessDestructionsPushStep /\ UNCHANGED <<regOrder, engineVars, typeVars, auxVars>>
    \/ ProcessDestructionsClearStep /\ UNCHANGED <<regOrder, engineVars, typeVars, auxVars>>

SpecFlush == Init /\ [][NextFlush]_vars


(***************************************************************************)
(* Entity (ecs.h:51-88, 236-259): a handle is the pair of an id and a      *)
(* manager, and every call through it passes m_id to the manager.  A       *)
(* handle is stale when ProcessDestructions has torn its id down since     *)
(* CreateEntity returned it; the manager cannot tell it from the handle a  *)
(* later CreateEntity returned for the same id, so the history records     *)
(* which of the two the client used.                                       *)
(***************************************************************************)
\* The client holds a handle of this kind for id e: a stale one when the id
\* has been torn down, a current one when the id is in use.
Holds(e, isStale) == IF isStale THEN e \in flushed ELSE e \in inUse

\* ProcessDestructions with the record of the ids it tears down.
ProcessDestructionsOfHandles ==
    /\ ProcessDestructions
    /\ flushed' = flushed \cup m_entitiesToDestroy
    /\ stale' = FALSE

\* Entity::AddComponent, Entity::RemoveComponent and Entity::Destroy.
EntityAddComponent(e, c, isStale) ==
    Holds(e, isStale) /\ AddComponent(e, c) /\ stale' = isStale /\ UNCHANGED flushed
EntityRemoveComponent(e, c, isStale) ==
    Holds(e, isStale) /\ RemoveComponent(e, c) /\ stale' = isStale /\ UNCHANGED flushed
EntityDestroy(e, isStale) ==
    Holds(e, isStale) /\ DestroyEntity(e) /\ stale' = isStale /\ UNCHANGED flushed

\* A client that keeps the handles of the entities it has destroyed.
NextHandles ==
    \/ /\ m_availableEntityIDs = <<>> => m_nextEntityID < MaxHandleEntityID
       /\ CreateEntity
       /\ stale' = FALSE
       /\ UNCHANGED <<regOrder, engineVars, typeVars, stepVars, flushed, systemObject,
                         heroVars, inputVars>>
    \/ /\ Len(m_availableEntityIDs) + Cardinality(m_entitiesToDestroy) <= MaxStorePool
       /\ ProcessDestructionsOfHandles
       /\ UNCHANGED <<regOrder, engineVars, typeVars, stepVars, systemObject,
                         heroVars, inputVars>>
    \/ \E s \in SystemIDs :
          /\ RegisterSystem(s)
          /\ stale' = FALSE
          /\ UNCHANGED <<regOrder, engineVars, typeVars, stepVars, flushed, systemObject,
                         heroVars, inputVars>>
    \/ \E e \in Handles, c \in ComponentIDs, isStale \in BOOLEAN :
          EntityAddComponent(e, c, isStale)
             /\ UNCHANGED <<regOrder, engineVars, typeVars, stepVars, systemObject,
                         heroVars, inputVars>>
    \/ \E e \in Handles, c \in ComponentIDs, isStale \in BOOLEAN :
          EntityRemoveComponent(e, c, isStale)
             /\ UNCHANGED <<regOrder, engineVars, typeVars, stepVars, systemObject,
                         heroVars, inputVars>>
    \/ \E e \in Handles, isStale \in BOOLEAN :
          EntityDestroy(e, isStale)
             /\ UNCHANGED <<regOrder, engineVars, typeVars, stepVars, systemObject,
                         heroVars, inputVars>>

SpecHandles == Init /\ [][NextHandles]_vars


(***************************************************************************)
(* A program with more component types than the mask has bits: C25 shows   *)
(* that GetComponentTypeID hands out MAX_COMPONENTS and above, and         *)
(* AddComponent<T> (ecs.h:328-352) is then called with such an identifier. *)
(***************************************************************************)
\* The component identifiers of that program: those of the other
\* specifications, and the first one that does not fit the mask.
AnyComponentIDs == ComponentIDs \cup {MAX_COMPONENTS}

NextCapacity ==
    \/ /\ m_availableEntityIDs = <<>> => m_nextEntityID < MaxHandleEntityID
       /\ CreateEntity
       /\ UNCHANGED <<regOrder, engineVars, typeVars, stepVars, auxVars>>
    \/ \E e \in Handles : DestroyEntity(e) /\ UNCHANGED <<regOrder, engineVars, typeVars, stepVars, auxVars>>
    \/ /\ Len(m_availableEntityIDs) + Cardinality(m_entitiesToDestroy) <= MaxStorePool
       /\ ProcessDestructions
       /\ UNCHANGED <<regOrder, engineVars, typeVars, stepVars, auxVars>>
    \/ \E s \in SystemIDs :
          RegisterSystem(s) /\ UNCHANGED <<regOrder, engineVars, typeVars, stepVars, auxVars>>
    \/ \E e \in Handles, c \in AnyComponentIDs :
          AddComponent(e, c) /\ UNCHANGED <<regOrder, engineVars, typeVars, stepVars, auxVars>>

SpecCapacity == Init /\ [][NextCapacity]_vars


(***************************************************************************)
(* EntityManager::RegisterSystem / GetSystem (ecs.h:401-437) with the      *)
(* system objects told apart.  m_systems maps a SystemID to a shared_ptr;  *)
(* systemObject.held names the object each pointer points to.              *)
(***************************************************************************)
\* The name of the k-th (k = 1, 2) object made for system type s: a
\* positive number, different for different types.
SystemInstance(s, k) == 2 * s + k

\* std::make_shared<T>: the new object is distinct from the one m_systems
\* still holds for the type.  The objects of one type alternate between its
\* two names.
NewSystemInstance(s) ==
    IF systemObject.held[s] = SystemInstance(s, 1)
    THEN SystemInstance(s, 2) ELSE SystemInstance(s, 1)

\* RegisterSystemHeld with emplace in place of the assignment: the object
\* the map already holds for the type is kept.
RegisterSystemHeldEmplace(s, object) ==
    IF systemObject.held[s] # nullptr THEN systemObject.held
    ELSE [systemObject.held EXCEPT ![s] = object]

\* m_systems[systemID] = system
RegisterSystemHeld(s, object) == [systemObject.held EXCEPT ![s] = object]

\* RegisterSystem<T> with the objects recorded.
RegisterSystemObject(s) ==
    /\ RegisterSystem(s)
    /\ systemObject' =
          [held |-> RegisterSystemHeld(s, NewSystemInstance(s)),
           made |-> [systemObject.made EXCEPT ![s] = NewSystemInstance(s)]]

\* EntityManager::GetSystem<T>: the object found under the type, or nullptr.
GetSystem(s) == IF s \in DOMAIN m_systems THEN systemObject.held[s] ELSE nullptr

\* The objects UpdateSystems or RenderSystems has called, in call order.
Dispatched == [i \in 1 .. Len(hooks) |-> GetSystem(hooks[i][2])]

\* A client that creates, changes and destroys entities, registers systems
\* again and again, switches them on and off, and dispatches.
NextSystems ==
    \/ /\ m_availableEntityIDs = <<>> => m_nextEntityID < MaxHandleEntityID
       /\ CreateEntity
       /\ UNCHANGED <<regOrder, engineVars, typeVars, stepVars, auxVars>>
    \/ \E e \in Handles : DestroyEntity(e) /\ UNCHANGED <<regOrder, engineVars, typeVars, stepVars, auxVars>>
    \/ /\ Len(m_availableEntityIDs) + Cardinality(m_entitiesToDestroy) <= MaxStorePool
       /\ ProcessDestructions
       /\ UNCHANGED <<regOrder, engineVars, typeVars, stepVars, auxVars>>
    \/ \E e \in Handles, c \in ComponentIDs :
          AddComponent(e, c) /\ UNCHANGED <<regOrder, engineVars, typeVars, stepVars, auxVars>>
    \/ \E e \in Handles, c \in ComponentIDs :
          RemoveComponent(e, c) /\ UNCHANGED <<regOrder, engineVars, typeVars, stepVars, auxVars>>
    \/ \E s \in SystemIDs :
          RegisterSystemObject(s)
             /\ UNCHANGED <<regOrder, engineVars, typeVars, stepVars, flushed, stale,
                            heroVars, inputVars>>
    \/ \E s \in SystemIDs, active \in BOOLEAN :
          SetActive(s, active) /\ UNCHANGED <<regOrder, engineVars, typeVars, stepVars, auxVars>>
    \/ \E order \in Orders(DOMAIN m_systems) :
          UpdateSystems(order) /\ UNCHANGED <<regOrder, engineVars, typeVars, stepVars, auxVars>>

SpecSystems == Init /\ [][NextSystems]_vars


(***************************************************************************)
(* HeroSystem (hero_system.cpp:279-352).  HeroSystem requires              *)
(* HeroComponent alone; CreateHero attaches HeroComponent, Transform and   *)
(* MeshRenderer.  The hooks of HeroSystem keep m_heroes: each hook reads   *)
(* the HeroComponent of the entity at the time it is called.               *)
(***************************************************************************)
\* The component type identifiers, in the order of the first request, and
\* the system type identifier whose required mask is {HeroComponentID}.
HeroComponentID == 0
TransformID == 1
MeshRendererID == 2
HeroSystemID == 1

\* The hero ids (std::string) the client uses; NoHero stands for no id.
HeroIDs == 1 .. NumHeroIDs
NoHero == 0

\* entity.GetComponent<HeroComponent>() and, when it is not null,
\* heroComponent->GetHeroID().
HeroIDSeen(e) ==
    LET r == GetComponent(e, HeroComponentID) IN
    IF r.throws \/ r.value = nullptr THEN NoHero ELSE MapGetOr(m_heroId, r.value, NoHero)

\* HeroSystem::OnEntityAdded and HeroSystem::OnEntityRemoved for an entity
\* whose hero id the hook has read as h.
HeroOnEntityAdded(heroes, e, h) == IF h = NoHero THEN heroes ELSE MapPut(heroes, h, e)
HeroOnEntityRemoved(heroes, e, h) == IF h = NoHero THEN heroes ELSE MapErase(heroes, {h})

RECURSIVE HeroHooks(_, _, _)
\* m_heroes after the hooks hs of one call of the manager have run in
\* order; seenID[e] is the hero id a hook called for e reads.
HeroHooks(hs, heroes, seenID) ==
    IF hs = <<>> THEN heroes
    ELSE LET h == Head(hs) IN
         IF h[1] = "OnEntityAdded" /\ h[2] = HeroSystemID
         THEN HeroHooks(Tail(hs), HeroOnEntityAdded(heroes, h[3], seenID[h[3]]), seenID)
         ELSE IF h[1] = "OnEntityRemoved" /\ h[2] = HeroSystemID
         THEN HeroHooks(Tail(hs), HeroOnEntityRemoved(heroes, h[3], seenID[h[3]]), seenID)
         ELSE HeroHooks(Tail(hs), heroes, seenID)

\* The component objects the store holds.
StoredObjects ==
    UNION {{m_entityComponents[e][c] : c \in DOMAIN m_entityComponents[e]} :
              e \in DOMAIN m_entityComponents}

\* RegisterSystem<HeroSystem>(): the new object starts with an empty map and
\* gets OnEntityAdded for every entity that matches.
HeroRegisterSystem ==
    /\ inCall.pc = "idle"
    /\ HeroSystemID \notin DOMAIN m_systems
    /\ RegisterSystem(HeroSystemID)
    /\ m_heroes' = HeroHooks(hooks', EmptyMap, [x \in EntityIDs |-> HeroIDSeen(x)])
    /\ UNCHANGED <<m_heroId, stepVars>>

\* AddComponent<T> on a manager that has the HeroSystem: the hooks run after
\* the component is stored and its bit is set.  h is the hero id passed to
\* the constructor of a HeroComponent.
HeroAddComponent(e, c, h) ==
    /\ AddComponent(e, c)
    /\ m_heroId' = IF c = HeroComponentID
                   THEN MapPut([p \in (DOMAIN m_heroId) \cap StoredObjects' |-> m_heroId[p]],
                               last'.ret, h)
                   ELSE m_heroId
    /\ m_heroes' = HeroHooks(hooks', m_heroes, [x \in EntityIDs |-> HeroIDSeen(x)'])

\* HeroSystem::CreateHero, statement by statement.
CreateHeroEntityStep(h) ==
    /\ inCall.pc = "idle"
    /\ HeroSystemID \in DOMAIN m_systems
    /\ m_availableEntityIDs = <<>> => m_nextEntityID < MaxStoreEntityID
    /\ CreateEntity
    /\ inCall' = [pc |-> "HeroComponent", e |-> CreateEntityID, c |-> h,
                  p |-> nullptr, todo |-> <<>>]
    /\ UNCHANGED <<seen, heroVars>>

CreateHeroComponentStep ==
    /\ inCall.pc = "HeroComponent"
    /\ HeroAddComponent(inCall.e, HeroComponentID, inCall.c)
    /\ inCall' = [inCall EXCEPT !.pc = "Transform"]
    /\ UNCHANGED seen

CreateHeroTransformStep ==
    /\ inCall.pc = "Transform"
    /\ HeroAddComponent(inCall.e, TransformID, NoHero)
    /\ inCall' = [inCall EXCEPT !.pc = "MeshRenderer"]
    /\ UNCHANGED seen

CreateHeroMeshRendererStep ==
    /\ inCall.pc = "MeshRenderer"
    /\ HeroAddComponent(inCall.e, MeshRendererID, NoHero)
    /\ inCall' = [pc |-> "idle", e |-> NoID, c |-> NoID, p |-> nullptr, todo |-> <<>>]
    /\ UNCHANGED seen

\* entity.RemoveComponent<HeroComponent>(): the hooks run after the
\* component is erased and its bit is reset.
HeroRemoveComponent(e) ==
    /\ inCall.pc = "idle"
    /\ RemoveComponent(e, HeroComponentID)
    /\ m_heroId' = [p \in (DOMAIN m_heroId) \cap StoredObjects' |-> m_heroId[p]]
    /\ m_heroes' = HeroHooks(hooks', m_heroes, [x \in EntityIDs |-> HeroIDSeen(x)'])
    /\ UNCHANGED stepVars

\* entity.Destroy()
HeroDestroy(e) ==
    /\ inCall.pc = "idle"
    /\ DestroyEntity(e)
    /\ UNCHANGED <<heroVars, stepVars>>

\* ProcessDestructions: the hooks of an entity run before its components are
\* erased (C31).
HeroProcessDestructions ==
    /\ inCall.pc = "idle"
    /\ Len(m_availableEntityIDs) + Cardinality(m_entitiesToDestroy) <= MaxStorePool
    /\ ProcessDestructions
    /\ m_heroId' = [p \in (DOMAIN m_heroId) \cap StoredObjects' |-> m_heroId[p]]
    /\ m_heroes' = HeroHooks(hooks', m_heroes, [x \in EntityIDs |-> HeroIDSeen(x)])
    /\ UNCHANGED stepVars

\* HeroSystem::GetHeroByID: the handle of the entity found, or
\* Entity(0, nullptr).  The manager is named 1.
GetHeroByID(h) ==
    IF h \in DOMAIN m_heroes THEN [m_id |-> m_heroes[h], m_manager |-> 1]
    ELSE [m_id |-> 0, m_manager |-> nullptr]

\* A client of the HeroSystem: it creates heroes, detaches HeroComponents,
\* destroys entities through the handles it holds, and flushes.
NextHeroes ==
    \/ HeroRegisterSystem
          /\ UNCHANGED <<regOrder, engineVars, typeVars, flushed, stale, systemObject, inputVars>>
    \/ \E h \in HeroIDs :
          CreateHeroEntityStep(h) /\ UNCHANGED <<regOrder, engineVars, typeVars, auxVars>>
    \/ CreateHeroComponentStep
          /\ UNCHANGED <<regOrder, engineVars, typeVars, flushed, stale, systemObject, inputVars>>
    \/ CreateHeroTransformStep
          /\ UNCHANGED <<regOrder, engineVars, typeVars, flushed, stale, systemObject, inputVars>>
    \/ CreateHeroMeshRendererStep
          /\ UNCHANGED <<regOrder, engineVars, typeVars, flushed, stale, systemObject, inputVars>>
    \/ \E e \in Handles :
          HeroRemoveComponent(e)
             /\ UNCHANGED <<regOrder, engineVars, typeVars, flushed, stale, systemObject, inputVars>>
    \/ \E e \in Handles :
          HeroDestroy(e)
             /\ UNCHANGED <<regOrder, engineVars, typeVars, flushed, stale, systemObject, inputVars>>
    \/ HeroProcessDestructions
          /\ UNCHANGED <<regOrder, engineVars, typeVars, flushed, stale, systemObject, inputVars>>

SpecHeroes == Init /\ [][NextHeroes]_vars


(***************************************************************************)
(* InputManager key state (input_manager.h:274-303, 341-354).  The three   *)
(* maps are std::unordered_map<KeyCode, bool>: operator[] inserts the key, *)
(* clear() removes every key, and the queries answer false for a key that  *)
(* is not found.  Update also resets the mouse members, which no key query *)
(* reads; no key callback is registered.                                   *)
(***************************************************************************)
\* enum class InputAction (input_manager.h:45-49).
InputActions == {"Press", "Release", "Repeat"}

\* InputManager::ProcessKeyEvent with the event recorded.
ProcessKeyEvent(key, action) ==
    /\ IF action = "Press"
       THEN /\ m_keyStates' = MapPut(m_keyStates, key, TRUE)
            /\ m_keyJustPressed' = MapPut(m_keyJustPressed, key, TRUE)
            /\ UNCHANGED m_keyJustReleased
       ELSE IF action = "Release"
       THEN /\ m_keyStates' = MapPut(m_keyStates, key, FALSE)
            /\ m_keyJustReleased' = MapPut(m_keyJustReleased, key, TRUE)
            /\ UNCHANGED m_keyJustPressed
       ELSE UNCHANGED <<m_keyStates, m_keyJustPressed, m_keyJustReleased>>
    /\ keyEvents' =
          IF action = "Repeat" THEN keyEvents
          ELSE [keyEvents EXCEPT ![key] =
                   [last |-> action, sinceUpdate |-> @.sinceUpdate \cup {action}]]

\* InputManagerUpdate clearing m_keyStates as well.
InputManagerUpdateClearingStates ==
    /\ m_keyStates' = EmptyMap
    /\ m_keyJustPressed' = EmptyMap
    /\ m_keyJustReleased' = EmptyMap
    /\ keyEvents' = [k \in KeyCodes |-> [keyEvents[k] EXCEPT !.sinceUpdate = {}]]

\* InputManager::Update with the call recorded.
InputManagerUpdate ==
    /\ m_keyJustPressed' = EmptyMap
    /\ m_keyJustReleased' = EmptyMap
    /\ keyEvents' = [k \in KeyCodes |-> [keyEvents[k] EXCEPT !.sinceUpdate = {}]]
    /\ UNCHANGED m_keyStates

\* InputManager::IsKeyPressed / IsKeyJustPressed / IsKeyJustReleased.
IsKeyPressed(key) == MapGetOr(m_keyStates, key, FALSE)
IsKeyJustPressed(key) == MapGetOr(m_keyJustPressed, key, FALSE)
IsKeyJustReleased(key) == MapGetOr(m_keyJustReleased, key, FALSE)

\* Key events arrive in any order between the calls of Update
\* (test_engine.cpp:241-263).
NextInput ==
    \/ \E key \in KeyCodes, action \in InputActions :
          ProcessKeyEvent(key, action)
             /\ UNCHANGED <<ecsVars, regOrder, engineVars, typeVars, stepVars,
                            flushed, stale, systemObject, heroVars>>
    \/ InputManagerUpdate
          /\ UNCHANGED <<ecsVars, regOrder, engineVars, typeVars, stepVars,
                         flushed, stale, systemObject, heroVars>>

SpecInput == Init /\ [][NextInput]_vars

(***************************************************************************)
(* Properties.  "Live" / "in use" is the history variable inUse: returned  *)
(* by CreateEntity and not torn down by ProcessDestructions since.         *)
(***************************************************************************)

\* C1: for every sequence of CreateEntity, DestroyEntity (through any handle
\* CreateEntity returned earlier, live, pending or already flushed) and
\* ProcessDestructions, CreateEntity never returns an identifier that is in
\* use at the time of the call.
C1_CreateReturnsUnusedID == [][CreateEntity => last'.ret \notin inUse]_vars

\* C2: immediately after every AddComponent, RemoveComponent and
\* RegisterSystem, every entity E is in the subscriber set of every
\* registered system S exactly when E's mask is a superset of S's mask.
C2_SubscribedIffMaskMatches ==
    last.op \in {"AddComponent", "RemoveComponent", "RegisterSystem"} =>
        \A s \in DOMAIN m_systems, e \in EntityIDs :
            e \in GetEntities(s) <=>
                (e \in DOMAIN m_entityMasks
                    /\ Matches(m_entityMasks[e], m_systems[s].m_componentMask))

C4_AttachedUntilDetached ==
    [][\A e \in inUse, c \in ComponentIDs :
          /\ AddComponent(e, c) =>
                (/\ HasComponent(e, c)' = Returns(TRUE)
                 /\ GetComponent(e, c)' = Returns(last'.ret))
          /\ (/\ GetComponent(e, c).value # nullptr
              /\ ~AddComponent(e, c)
              /\ ~RemoveComponent(e, c)
              /\ ~(ProcessDestructions /\ e \in m_entitiesToDestroy)) =>
                (/\ HasComponent(e, c)' = Returns(TRUE)
                 /\ GetComponent(e, c)' = GetComponent(e, c))]_vars

\* C5: for every live entity E and type T, right after RemoveComponent<T>(E),
\* HasComponent<T>(E) is false and GetComponent<T>(E) is nullptr, and
\* HasComponent<U>(E) and GetComponent<U>(E) are what they were for every
\* other type U.
C5_DetachRemovesOnlyThatType ==
    [][\A e \in inUse, c \in ComponentIDs :
          RemoveComponent(e, c) =>
              /\ HasComponent(e, c)' = Returns(FALSE)
              /\ GetComponent(e, c)' = Returns(nullptr)
              /\ \A u \in ComponentIDs \ {c} :
                    /\ HasComponent(e, u)' = HasComponent(e, u)
                    /\ GetComponent(e, u)' = GetComponent(e, u)]_vars

\* C5's case: a component of a live entity has been detached (its Finalize
\* ran) and the entity still holds the other type.
C5_Witness ==
    /\ last.op = "RemoveComponent"
    /\ \E e \in inUse, c \in ComponentIDs, k \in {1, 2} :
          /\ hooks # <<>>
          /\ Head(hooks) = <<"Finalize", Instance(e, c, k)>>
          /\ m_entityMasks[e] = ComponentIDs \ {c}
          /\ m_entityMasks[e] # {}

\* C6: DestroyEntity(E) only adds E to the pending set: masks, components,
\* subscriber sets, the id pool and the next-id counter are unchanged, so
\* HasComponent<T>(E) and GetComponent<T>(E) answer as before, and no hook
\* fires.
C6_DestroyIsDeferred ==
    [][\A e \in Handles :
          DestroyEntity(e) =>
              /\ m_entitiesToDestroy' = m_entitiesToDestroy \cup {e}
              /\ UNCHANGED <<m_entityMasks, m_entityComponents, m_systems,
                             m_availableEntityIDs, m_nextEntityID>>
              /\ hooks' = <<>>
              /\ \A c \in ComponentIDs :
                    /\ HasComponent(e, c)' = HasComponent(e, c)
                    /\ GetComponent(e, c)' = GetComponent(e, c)]_vars

\* C6's case: a live, subscribed entity that holds a component is pending
\* right after DestroyEntity.
C6_Witness ==
    /\ last.op = "DestroyEntity"
    /\ \E e \in m_entitiesToDestroy \cap inUse :
          /\ HasComponent(e, 0) = Returns(TRUE)
          /\ \E s \in DOMAIN m_systems : e \in GetEntities(s)

\* C7: from the flush that tears E down until CreateEntity returns E's
\* identifier again, and for an identifier CreateEntity never returned,
\* GetComponentMask fails with the unknown-entity condition, whatever is
\* called in between.
C7_UnknownEntityUntilReissued ==
    \A e \in EntityIDs \ inUse : GetComponentMask(e).throws

\* C8: CreateEntity takes the identifier from the pool whenever the pool is
\* not empty and then leaves the counter alone; the counter advances only
\* when the pool is empty.  Create E1, destroy E1, flush, create E2 gives
\* E2 = E1.
C8_PoolBeforeCounter ==
    [][/\ CreateEntity =>
            IF m_availableEntityIDs # <<>>
            THEN /\ last'.ret = Head(m_availableEntityIDs)
                 /\ m_availableEntityIDs' = Tail(m_availableEntityIDs)
                 /\ m_nextEntityID' = m_nextEntityID
            ELSE /\ last'.ret = m_nextEntityID
                 /\ m_nextEntityID' = m_nextEntityID + 1
       /\ m_nextEntityID' # m_nextEntityID =>
            (m_availableEntityIDs = <<>> /\ last'.op = "CreateEntity")
       /\ \A e \in Handles :
            (/\ ProcessDestructions
             /\ m_availableEntityIDs = <<>>
             /\ m_entitiesToDestroy = {e}) => CreateEntityID' = e]_vars

\* C8's case: CreateEntity has returned an identifier that is not the one
\* the counter was at, i.e. a recycled one.
C8_Witness ==
    /\ last.op = "CreateEntity"
    /\ last.ret + 1 < m_nextEntityID

\* C9: every identifier CreateEntity returns is below MAX_ENTITIES, so at
\* most MAX_ENTITIES entities are in use at once.
C9_IdsBelowMaxEntities ==
    /\ last.op = "CreateEntity" => last.ret < MAX_ENTITIES
    /\ Cardinality(inUse) <= MAX_ENTITIES

\* C10: DestroyEntity on an identifier that is already pending changes
\* nothing, and the next ProcessDestructions tears every pending identifier
\* down and returns it to the pool exactly once.
C10_DestroyIdempotent ==
    [][/\ \A e \in Handles :
            (DestroyEntity(e) /\ e \in m_entitiesToDestroy) =>
                UNCHANGED <<m_entityMasks, m_entityComponents, m_availableEntityIDs,
                            m_nextEntityID, m_systems, m_entitiesToDestroy, inUse>>
       /\ ProcessDestructions =>
            /\ m_entitiesToDestroy' = {}
            /\ \A e \in EntityIDs :
                  Count(m_availableEntityIDs', e) =
                      Count(m_availableEntityIDs, e)
                          + (IF e \in m_entitiesToDestroy THEN 1 ELSE 0)
            /\ \A e \in m_entitiesToDestroy :
                  e \notin DOMAIN m_entityMasks' /\ e \notin DOMAIN m_entityComponents']_vars

\* C10's case: DestroyEntity has been called on an identifier that was
\* already pending.
C10_Witness ==
    /\ last.op = "DestroyEntity"
    /\ last.noop
    /\ m_entitiesToDestroy # {}

\* C11: when ProcessDestructions returns, every identifier that was pending
\* is in no subscriber set, has no components and no mask, and is in the
\* pool; the pending set is empty; entities that were not pending keep
\* their masks, components and subscriptions.
C11_FlushTearsDownPendingOnly ==
    [][ProcessDestructions =>
          /\ m_entitiesToDestroy' = {}
          /\ \A e \in m_entitiesToDestroy :
                /\ \A s \in DOMAIN m_systems' : e \notin GetEntities(s)'
                /\ e \notin DOMAIN m_entityComponents'
                /\ GetComponentMask(e)'.throws
                /\ Count(m_availableEntityIDs', e) >= 1
          /\ \A e \in EntityIDs \ m_entitiesToDestroy :
                /\ GetComponentMask(e)' = GetComponentMask(e)
                /\ \A c \in ComponentIDs : GetComponent(e, c)' = GetComponent(e, c)
                /\ (e \in DOMAIN m_entityComponents') = (e \in DOMAIN m_entityComponents)
                /\ \A s \in DOMAIN m_systems :
                      (e \in GetEntities(s)') = (e \in GetEntities(s))
          /\ DOMAIN m_systems' = DOMAIN m_systems]_vars

\* C11's case: a flush has torn down an entity that was subscribed while
\* another entity keeps its component and its subscription.
C11_Witness ==
    /\ last.op = "ProcessDestructions"
    /\ hooks # <<>>
    /\ m_availableEntityIDs # <<>>
    /\ \E e \in inUse, s \in DOMAIN m_systems :
          e \in GetEntities(s) /\ HasComponent(e, 0) = Returns(TRUE)

\* C12: during ProcessDestructions every component still attached to a
\* pending entity gets its Finalize hook exactly once.
C12_FlushFinalizesComponents ==
    [][ProcessDestructions =>
          \A e \in m_entitiesToDestroy \cap DOMAIN m_entityComponents :
              \A c \in DOMAIN m_entityComponents[e] :
                  Count(hooks', <<"Finalize", m_entityComponents[e][c]>>) = 1]_vars

\* The subscriber set of the system object that is registered under s
\* before a step; an object made by this very step had none.
SubscribersBefore(s) ==
    IF s \in DOMAIN m_systems
        /\ ~(last'.op = "RegisterSystem" /\ Head(hooks') = <<"SystemInitialize", s>>)
    THEN GetEntities(s) ELSE {}

\* C13: OnEntityAdded of system S fires for entity E exactly once on every
\* step that takes E from unsubscribed to subscribed in S, and on no other
\* step.
C13_AddedHookOncePerTransition ==
    [][\A s \in DOMAIN m_systems', e \in EntityIDs :
          Count(hooks', <<"OnEntityAdded", s, e>>) =
              IF e \notin SubscribersBefore(s) /\ e \in GetEntities(s)' THEN 1 ELSE 0]_vars

\* C14: OnEntityRemoved of system S fires for entity E exactly once on every
\* step that takes E from subscribed to unsubscribed in S, by
\* RemoveComponent or by ProcessDestructions, and never for an entity that
\* is not subscribed to S.
C14_RemovedHookOncePerTransition ==
    [][\A s \in DOMAIN m_systems', e \in EntityIDs :
          Count(hooks', <<"OnEntityRemoved", s, e>>) =
              IF e \in SubscribersBefore(s) /\ e \notin GetEntities(s)' THEN 1 ELSE 0]_vars

\* C14's case: a detach has unsubscribed an entity from one system and left
\* it subscribed to another.
C14_Witness ==
    /\ last.op = "RemoveComponent"
    /\ \E e \in inUse, s, t \in DOMAIN m_systems :
          /\ Count(hooks, <<"OnEntityRemoved", s, e>>) = 1
          /\ e \notin GetEntities(s)
          /\ e \in GetEntities(t)

\* The scenario of two systems: S1 (id 1) requires {A}, S2 (id 2) requires
\* {A, B}, with A = 0 and B = 1, and e is an entity in use that holds only A.
HoldsOnlyA(e) ==
    /\ {1, 2} \subseteq DOMAIN m_systems
    /\ e \in inUse
    /\ GetComponentMask(e) = Returns({0})

\* C15: with S1 requiring {A} and S2 requiring {A, B} registered, an entity
\* holding only A is subscribed to S1 and not to S2; after AddComponent<B>
\* it is subscribed to both, and S1's subscriber set is the same set before
\* and after the attach.
C15_AttachLeavesOtherSubscription ==
    [][\A e \in EntityIDs :
          HoldsOnlyA(e) =>
              /\ e \in GetEntities(1)
              /\ e \notin GetEntities(2)
              /\ AddComponent(e, 1) =>
                    /\ e \in GetEntities(1)'
                    /\ e \in GetEntities(2)'
                    /\ GetEntities(1)' = GetEntities(1)]_vars

\* C16: immediately after RegisterSystem<S> returns, S's subscriber set is
\* exactly the set of entities in use whose mask is a superset of S's
\* required mask.
C16_RegisterPicksUpLiveMatches ==
    \A s \in DOMAIN m_systems :
        (last.op = "RegisterSystem" /\ Head(hooks) = <<"SystemInitialize", s>>) =>
            GetEntities(s) =
                {e \in inUse : /\ e \in DOMAIN m_entityMasks
                               /\ Matches(m_entityMasks[e], m_systems[s].m_componentMask)}

\* C17: immediately after every CreateEntity and every ProcessDestructions,
\* for every registered system S (one with an empty required mask included)
\* and every entity E in use, E is in S's subscriber set iff E's mask is a
\* superset of S's required mask, and no identifier that is not in use is in
\* any subscriber set.
C17_ConsistentAfterCreateAndFlush ==
    last.op \in {"CreateEntity", "ProcessDestructions"} =>
        \A s \in DOMAIN m_systems :
            /\ GetEntities(s) \subseteq inUse
            /\ \A e \in inUse :
                  e \in GetEntities(s) <=>
                      (e \in DOMAIN m_entityMasks
                          /\ Matches(m_entityMasks[e], m_systems[s].m_componentMask))

\* C18: UpdateSystems invokes Update exactly once on every registered system
\* whose IsActive() is true and on no system disabled with SetActive(false);
\* RenderSystems does the same with Render.
C18_DispatchActiveExactlyOnce ==
    /\ last.op = "UpdateSystems" =>
          \A s \in SystemIDs :
              Count(hooks, <<"Update", s>>) =
                  IF s \in DOMAIN m_systems /\ m_systems[s].m_active THEN 1 ELSE 0
    /\ last.op = "RenderSystems" =>
          \A s \in SystemIDs :
              Count(hooks, <<"Render", s>>) =
                  IF s \in DOMAIN m_systems /\ m_systems[s].m_active THEN 1 ELSE 0
    /\ last.op \in {"UpdateSystems", "RenderSystems"} =>
          Len(hooks) = Cardinality({s \in DOMAIN m_systems : m_systems[s].m_active})

\* C18's case: a dispatch has called one system and skipped a disabled one.
C18_Witness ==
    /\ last.op = "UpdateSystems"
    /\ \E s, t \in DOMAIN m_systems :
          /\ ~m_systems[s].m_active
          /\ m_systems[t].m_active
          /\ hooks = << <<"Update", t>> >>

\* The position of system s in the registration order.
RegisteredAt(s) == CHOOSE i \in 1..Len(regOrder) : regOrder[i] = s

\* C19: UpdateSystems and RenderSystems invoke the active systems in
\* registration order: a system registered before another is invoked before
\* it in every dispatch.
C19_DispatchInRegistrationOrder ==
    last.op \in {"UpdateSystems", "RenderSystems"} =>
        \A i, j \in 1..Len(hooks) :
            RegisteredAt(hooks[i][2]) < RegisteredAt(hooks[j][2]) => i < j

\* C20: in every iteration of Engine::Run, ProcessDestructions is called
\* exactly once and before that iteration's UpdateSystems, UpdateSystems is
\* called before its RenderSystems, and no system's Update or Render is
\* dispatched in the iteration before its flush.
C20_FlushThenUpdateThenRender ==
    /\ Count(frame, FlushCall) <= 1
    /\ \A i \in 1..Len(frame) :
          /\ frame[i] # FlushCall => \E j \in 1..(i - 1) : frame[j] = FlushCall
          /\ frame[i] = RenderCall => \E j \in 1..(i - 1) : frame[j] = UpdateCall
          /\ frame[i][1] = "Update" => \E j \in 1..(i - 1) : frame[j] = UpdateCall
          /\ frame[i][1] = "Render" => \E j \in 1..(i - 1) : frame[j] = RenderCall
    /\ pc = "limit" =>
          /\ Count(frame, FlushCall) = 1
          /\ Count(frame, UpdateCall) = 1
          /\ Count(frame, RenderCall) = 1

\* C20's case: an iteration has flushed an entity and dispatched Update and
\* Render to a system, and is at its end.
C20_Witness ==
    /\ pc = "limit"
    /\ m_availableEntityIDs # <<>>
    /\ \E s \in DOMAIN m_systems :
          Count(frame, <<"Update", s>>) = 1 /\ Count(frame, <<"Render", s>>) = 1

\* C21: RemoveComponent<T>(E) is a no-op when E has no component of type T:
\* the set of known entities, every mask, every stored component, every
\* subscriber set, the pending set and the id pool are unchanged, and no
\* Finalize or OnEntityRemoved hook fires.
C21_DetachOfAbsentIsNoOp ==
    [][\A e \in EntityIDs, c \in ComponentIDs :
          (RemoveComponent(e, c) /\ HasComponent(e, c) # Returns(TRUE)) =>
              /\ UNCHANGED <<m_entityMasks, m_entityComponents, m_systems,
                             m_entitiesToDestroy, m_availableEntityIDs>>
              /\ hooks' = <<>>]_vars

\* C22: GetComponent<T>(E) on a known entity E that has no component of type
\* T returns nullptr and raises no error; it raises an error only when E is
\* an unknown entity identifier.
C22_GetOfAbsentReturnsNull ==
    \A e \in EntityIDs, c \in ComponentIDs :
        /\ (e \in inUse /\ HasComponent(e, c) = Returns(FALSE)) =>
              GetComponent(e, c) = Returns(nullptr)
        /\ GetComponent(e, c).throws => e \notin inUse

\* C22's case: an entity in use holds one type and not the other, and
\* another identifier has been torn down.
C22_Witness ==
    \E e \in inUse, u \in Handles \ inUse :
        /\ GetComponent(e, 0) = Returns(nullptr)
        /\ GetComponent(e, 1).value # nullptr
        /\ GetComponent(u, 0).throws

\* C23: an operation on an unknown entity identifier (never created, or
\* flushed and not recreated since) is always surfaced: HasComponent,
\* GetComponent and GetComponentMask raise the unknown-entity error, and
\* AddComponent and RemoveComponent leave masks, components and subscriber
\* sets unchanged.
C23_UnknownEntityNeverAccepted ==
    [][\A e \in EntityIDs \ inUse, c \in ComponentIDs :
          /\ HasComponent(e, c).throws
          /\ GetComponent(e, c).throws
          /\ GetComponentMask(e).throws
          /\ (AddComponent(e, c) \/ RemoveComponent(e, c)) =>
                UNCHANGED <<m_entityMasks, m_entityComponents, m_systems>>]_vars

\* C26: immediately after CreateEntity returns identifier id, fresh or
\* recycled and whatever was done with it before, GetComponentMask(id) is
\* the empty mask and the store holds no component for id, so
\* HasComponent<T>(id) is false for every T.
C26_CreatedEntityIsEmpty ==
    last.op = "CreateEntity" =>
        /\ GetComponentMask(last.ret) = Returns({})
        /\ last.ret \in DOMAIN m_entityComponents
        /\ m_entityComponents[last.ret] = EmptyMap
        /\ \A c \in ComponentIDs :
              /\ HasComponent(last.ret, c) = Returns(FALSE)
              /\ GetComponent(last.ret, c) = Returns(nullptr)

\* C26's case: CreateEntity has reissued an identifier that components were
\* attached to before: a system that requires a component still lists it.
C26_Witness ==
    /\ last.op = "CreateEntity"
    /\ \E s \in DOMAIN m_systems :
          /\ m_systems[s].m_componentMask # {}
          /\ last.ret \in GetEntities(s)

C28_SubscribersAreProcessable ==
    \A s \in DOMAIN m_systems :
        \A e \in GetEntities(s), c \in m_systems[s].m_componentMask :
            /\ ~GetComponent(e, c).throws
            /\ GetComponent(e, c).value # nullptr

\* C29: AddComponent<T>(E) stores the component and sets E's mask bit for T,
\* then runs the component's Initialize hook, then re-evaluates the systems:
\* whenever Initialize or a system's OnEntityAdded(E) runs in the call,
\* HasComponent<T>(E) is already true and GetComponent<T>(E) is the new
\* component, and every OnEntityAdded runs after Initialize.
C29_AttachOrder ==
    /\ \A i \in 1..Len(seen) :
          /\ seen[i].has = Returns(TRUE)
          /\ seen[i].get = Returns(inCall.p)
          /\ (seen[i].hook = "Initialize") = (i = 1)
    /\ inCall.pc = "systems" => seen # <<>>
    /\ inCall.pc \in {"initialize", "systems"} =>
          /\ HasComponent(inCall.e, inCall.c) = Returns(TRUE)
          /\ GetComponent(inCall.e, inCall.c) = Returns(inCall.p)

\* C29's case: an attach has run Initialize and then the OnEntityAdded hooks
\* of two systems, and has returned.
C29_Witness ==
    /\ inCall.pc = "idle"
    /\ last = [op |-> "AddComponent", ret |-> inCall.p, noop |-> FALSE]
    /\ Len(seen) = 3
    /\ seen[3].hook = "OnEntityAdded"

\* C30: RemoveComponent<T>(E), when E has a T, invokes the component's
\* Finalize exactly once and before anything else, removes the component,
\* clears the mask bit, and removes E from exactly those systems whose
\* required mask is no longer satisfied; a system whose required mask does
\* not include T keeps E subscribed and receives no hook.
C30_DetachFinalizesThenUnsubscribes ==
    [][\A e \in inUse, c \in ComponentIDs :
          (RemoveComponent(e, c) /\ HasComponent(e, c) = Returns(TRUE)) =>
              /\ Head(hooks') = <<"Finalize", GetComponent(e, c).value>>
              /\ Count(hooks', <<"Finalize", GetComponent(e, c).value>>) = 1
              /\ HasComponent(e, c)' = Returns(FALSE)
              /\ GetComponent(e, c)' = Returns(nullptr)
              /\ \A s \in DOMAIN m_systems :
                    /\ e \in GetEntities(s)' <=>
                          (e \in GetEntities(s)
                              /\ Matches(m_entityMasks'[e], m_systems[s].m_componentMask))
                    /\ c \notin m_systems[s].m_componentMask =>
                          /\ (e \in GetEntities(s)') = (e \in GetEntities(s))
                          /\ Count(hooks', <<"OnEntityRemoved", s, e>>) = 0]_vars

\* The identifiers of one kind are the positions of the types in the order
\* of their first request, counted from 0, and the counter of the kind is
\* the number of types requested.
TypeIDsInRequestOrder(typeID, order, counter) ==
    /\ counter = Len(order)
    /\ \A i \in 1..Len(order) : typeID[order[i]] = i - 1
    /\ \A t \in DOMAIN typeID :
          (typeID[t] = NoID) = (\A i \in 1..Len(order) : order[i] # t)
    /\ \A t, u \in DOMAIN typeID : (t # u /\ typeID[t] # NoID) => typeID[t] # typeID[u]

\* C24: each type gets the index of its first request within its own kind,
\* every later request for the type returns the same value, distinct types
\* of one kind never share an identifier, the two counters advance
\* independently, and identifiers are not reassigned when the EntityManager
\* is replaced.
C24_TypeIDsStableAndDense ==
    [][/\ TypeIDsInRequestOrder(componentTypeID, requested.component,
                                s_componentTypeCounter)'
       /\ TypeIDsInRequestOrder(systemTypeID, requested.system, s_systemTypeCounter)'
       /\ \A t \in ComponentTypes :
             /\ componentTypeID[t] # NoID => componentTypeID'[t] = componentTypeID[t]
             /\ GetComponentTypeID(t) =>
                   /\ last'.ret = componentTypeID'[t]
                   /\ UNCHANGED <<s_systemTypeCounter, systemTypeID>>
       /\ \A t \in SystemTypes :
             /\ systemTypeID[t] # NoID => systemTypeID'[t] = systemTypeID[t]
             /\ GetSystemTypeID(t) =>
                   /\ last'.ret = systemTypeID'[t]
                   /\ UNCHANGED <<s_componentTypeCounter, componentTypeID>>]_vars

\* C24's case: after the EntityManager was replaced, a repeated request for
\* the component type requested second returns 1 again, the types were not
\* requested in the order of their names, and system types were requested
\* in between.
C24_Witness ==
    /\ requested.replaced
    /\ last = [op |-> "GetComponentTypeID", ret |-> 1, noop |-> TRUE]
    /\ Len(requested.component) >= 3
    /\ requested.component[1] = 3
    /\ Len(requested.system) >= 2

\* C25: requesting a component type identifier for more types than
\* MAX_COMPONENTS fails at the request: no identifier greater than or equal
\* to MAX_COMPONENTS is ever handed out.
C25_NoTypeIDBeyondCapacity ==
    /\ \A t \in ComponentTypes : componentTypeID[t] < MAX_COMPONENTS
    /\ last.op = "GetComponentTypeID" => last.ret < MAX_COMPONENTS

\* C31: during ProcessDestructions every OnEntityRemoved hook of a pending
\* entity is called before the entity's components and mask are erased: what
\* GetComponentMask and GetComponent<T> answer inside the hook is what they
\* answered when the flush reached the entity, the entity is still known,
\* and its identifier has not been pushed on the pool; when the identifier
\* is about to be pushed, the components and the mask are gone.
C31_HooksRunBeforeErase ==
    /\ \A i, j \in 1 .. Len(seen) :
          (/\ i < j
           /\ seen[i].hook = "for"
           /\ seen[j].hook = "OnEntityRemoved"
           /\ seen[i].entity = seen[j].entity)
          => /\ ~seen[j].mask.throws
             /\ seen[j].mask = seen[i].mask
             /\ seen[j].get = seen[i].get
             /\ seen[j].pooled = seen[i].pooled
    /\ inCall.pc = "push"
          => /\ inCall.e \notin DOMAIN m_entityMasks
             /\ inCall.e \notin DOMAIN m_entityComponents
             /\ \A s \in DOMAIN m_systems : inCall.e \notin GetEntities(s)

\* The flush is about to push the identifier of an entity whose hook could
\* still read a component of it.
C31_Witness ==
    /\ inCall.pc = "push"
    /\ \E j \in 1 .. Len(seen) :
          /\ seen[j].hook = "OnEntityRemoved"
          /\ seen[j].entity = inCall.e
          /\ \E c \in ComponentIDs :
                /\ ~seen[j].get[c].throws
                /\ seen[j].get[c].value # nullptr

\* C33: no destroy request for a live entity is lost: a step that takes the
\* pending mark from an entity belongs to a flush that has torn the entity
\* down, also when the request was made from inside OnEntityRemoved while
\* the flush was running.
C33_NoDestroyRequestLost ==
    [][\A x \in inUse :
          (x \in m_entitiesToDestroy /\ x \notin m_entitiesToDestroy')
          => x \notin inUse']_vars

\* C32: Run returns once Stop has been requested, after completing at most
\* the frame in progress: when Stop was called during the Run call, also
\* before Run has set m_running, the next test of the loop condition ends
\* the loop and no further frame is started.
C32_StopEndsRun == [][(stopped /\ pc = "loop") => pc' # "flush"]_vars

\* The part of the registry that belongs to entity x: its mask, its
\* components, the systems it is subscribed to, and its pending mark.
StateOfEntity(x) ==
    <<GetComponentMask(x),
      MapGetOr(m_entityComponents, x, EmptyMap),
      {s \in DOMAIN m_systems : x \in GetEntities(s)},
      x \in m_entitiesToDestroy>>

\* C34: a stale handle cannot affect a later entity: a call of AddComponent,
\* RemoveComponent or Destroy through a handle whose entity has been
\* destroyed and flushed changes neither the mask, the components, the
\* subscriptions nor the liveness of an entity in use, which a later
\* CreateEntity returned.
C34_StaleHandleIsHarmless ==
    [][stale' => \A x \in inUse : StateOfEntity(x)' = StateOfEntity(x)]_vars

\* C35: an AddComponent that fails, because the component type identifier
\* does not fit the mask, leaves the registry unchanged: no component is
\* stored, no mask bit is set and no subscription changes, so every stored
\* component still has its mask bit.
C35_FailedAttachChangesNothing ==
    [][\A e \in Handles, c \in AnyComponentIDs :
          (c >= MAX_COMPONENTS /\ AddComponent(e, c))
          => /\ UNCHANGED <<m_entityMasks, m_entityComponents, m_systems>>
             /\ \A x \in DOMAIN m_entityComponents' :
                   DOMAIN m_entityComponents'[x] \subseteq MapGetOr(m_entityMasks', x, {})]_vars

\* C36: disabling a system only suppresses its dispatch: while it is
\* inactive its subscriber set is maintained as for an active system, so
\* the subscriber set of an inactive system, and of a system that has just
\* been switched on again, is the set of live entities whose mask satisfies
\* its required mask.
C36_InactiveSystemKeepsSubscribers ==
    \A s \in DOMAIN m_systems :
       (~m_systems[s].m_active \/ last.op = "SetActive")
       => GetEntities(s) =
             {e \in inUse : Matches(MapGetOr(m_entityMasks, e, {}),
                                    m_systems[s].m_componentMask)}

\* C37: at most one system object per type is registered.  GetSystem<T> is
\* nullptr when T was never registered and the object of the most recent
\* RegisterSystem<T> otherwise; registering again replaces the object by a
\* new, active one whose subscriber set is rebuilt from the current masks;
\* a dispatch calls, per type, at most the current object, never a replaced
\* one.
C37_OneSystemObjectPerType ==
    /\ \A s \in SystemIDs :
          /\ GetSystem(s) = systemObject.made[s]
          /\ GetSystem(s) = nullptr <=> s \notin DOMAIN m_systems
    /\ \A s \in SystemIDs :
          (last.op = "RegisterSystem" /\ Head(hooks) = <<"SystemInitialize", s>>)
          => /\ GetSystem(s) # nullptr
             /\ m_systems[s].m_active
             /\ GetEntities(s) =
                   {e \in DOMAIN m_entityMasks :
                       Matches(m_entityMasks[e], m_systems[s].m_componentMask)}
    /\ last.op = "UpdateSystems"
          => \A i \in 1 .. Len(hooks) :
                /\ Dispatched[i] = systemObject.made[hooks[i][2]]
                /\ \A j \in 1 .. Len(hooks) : Dispatched[i] = Dispatched[j] => i = j

\* A system type has been registered a second time while its first object
\* was switched off and an entity matched it, and the systems have then
\* been dispatched.
C37_Witness ==
    /\ last.op = "UpdateSystems"
    /\ \E s \in SystemIDs :
          /\ systemObject.made[s] = SystemInstance(s, 2)
          /\ GetEntities(s) # {}
          /\ \E i \in 1 .. Len(hooks) : hooks[i] = <<"Update", s>>

\* C38: the hero map of HeroSystem agrees with its subscriptions: between
\* the calls of CreateHero, RemoveComponent<HeroComponent>, Destroy and
\* ProcessDestructions, GetHeroByID(h) returns an entity exactly when some
\* entity subscribed to HeroSystem carries a HeroComponent with hero id h.
C38_HeroMapMatchesSubscriptions ==
    (inCall.pc = "idle" /\ HeroSystemID \in DOMAIN m_systems)
    => \A h \in HeroIDs :
          GetHeroByID(h).m_manager # nullptr
          <=> \E e \in GetEntities(HeroSystemID) : HeroIDSeen(e) = h

\* C39: the key state machine of InputManager: IsKeyPressed(k) is true
\* exactly when the last Press or Release event for k was a Press;
\* IsKeyJustPressed(k) and IsKeyJustReleased(k) are true exactly when a
\* Press, respectively a Release, for k has arrived since the last Update;
\* Update and Repeat events therefore leave the pressed state alone.
C39_KeyStateMachine ==
    \A k \in KeyCodes :
       /\ IsKeyPressed(k) = (keyEvents[k].last = "Press")
       /\ IsKeyJustPressed(k) = ("Press" \in keyEvents[k].sinceUpdate)
       /\ IsKeyJustReleased(k) = ("Release" \in keyEvents[k].sinceUpdate)

\* A key was pressed and released before the next Update, while another key
\* is still held down from before that Update: the first is not pressed and
\* is both just pressed and just released.
C39_Witness ==
    \E k, j \in KeyCodes :
       /\ keyEvents[k] = [last |-> "Release", sinceUpdate |-> {"Press", "Release"}]
       /\ ~IsKeyPressed(k) /\ IsKeyJustPressed(k) /\ IsKeyJustReleased(k)
       /\ keyEvents[j] = [last |-> "Press", sinceUpdate |-> {}]
       /\ IsKeyPressed(j) /\ ~IsKeyJustPressed(j)

=============================================================================
